---- MODULE Spec2Model ----
(***************************************************************************)
(* Model of the finna expense categorisation workflows: the per-expense    *)
(* categorizeExpense function and its onFailure handler, the run counters  *)
(* kept in workflow_runs, the three trackRunCompletion functions, the      *)
(* review handlers and the functions that react to review events.          *)
(*                                                                         *)
(* One batch (workflow run) is modelled.  Every read of the workflow_runs   *)
(* row and the write that follows it are separate steps, so that the       *)
(* read-modify-write sequences of the handlers interleave as they do on    *)
(* the event loop.                                                         *)
(***************************************************************************)
EXTENDS Integers, FiniteSets, Sequences, Bags, TLC

\* ---------------------------------------------------------------- bounds
NumItems == 1          \* top-level expenses of the run under review (Spec)
MaxHuman == 1          \* requests the reviewer may issue (Spec)
BatchItems == 3        \* top-level expenses of the unattended batch (SpecBatch)
DupItems == 1          \* top-level expenses under repeated delivery (SpecDup)
MaxRedeliver == 1      \* events the substrate delivers a second time (SpecDup)

\* ------------------------------------------------------ program constants
CONFIDENCE_THRESHOLD == 70   \* 0.7, confidences are in hundredths
Tolerance == 1               \* 0.01, amounts are in cents

\* ------------------------------------------------------------ JS numbers
\* A JavaScript number is either an integer or NaN; reading a property the
\* object does not have gives undefined, which arithmetic turns into NaN.
Num(n) == [nan |-> FALSE, v |-> n]
NaN == [nan |-> TRUE, v |-> 0]
JsProp(obj, f) == IF f \in DOMAIN obj THEN Num(obj[f]) ELSE NaN
JsAdd(a, b) == IF a.nan \/ b.nan THEN NaN ELSE Num(a.v + b.v)
JsGe(a, b) == ~a.nan /\ ~b.nan /\ a.v >= b.v

\* --------------------------------------------------------------- state
VARIABLES
  run,              \* the workflow_runs row of the batch
  expenses,         \* expenses_<runId>: id -> row
  categorizations,  \* categorizations: expenseId -> row
  review_queue,     \* review_queue: expenseId (id is review_<expenseId>) -> row
  categories,       \* categories: set of [id, name, parentId]
  events,           \* bag of events sent to Inngest and not yet consumed
  fnRuns,           \* bag of function runs in flight (position and locals)
  now,              \* clock read by new Date()
  redeliveries,     \* repeated deliveries the substrate may still make
  humanOps,         \* requests the reviewer may still issue
  statusWrites,     \* history: writes of status = categorization_done so far
  tracked,          \* history: the signals a finished tracker run has handled
  retracked,        \* history: tracker runs that finished on signals handled before
  owed,             \* history: expenseId -> outcome transitions not yet signalled
  sent              \* history: expenseId -> outcome signals emitted so far

vars == <<run, expenses, categorizations, review_queue, categories, events, fnRuns,
          now, redeliveries, humanOps, statusWrites, tracked, retracked, owed, sent>>

Null == 0   \* SQL NULL of completedAt; timestamps start at 1

\* ------------------------------------------------------- workflow_runs
RunColumns == {"status", "totalExpenses", "categorizedCount", "reviewQueueCount",
               "completedAt"}

\* createWorkflowRun, as called by processExpenses 'ingest-csv'
createWorkflowRun(total) ==
  [status |-> "processing", totalExpenses |-> total, categorizedCount |-> 0,
   reviewQueueCount |-> 0, completedAt |-> Null]

\* getWorkflowRun: the object built from the row (it has no failedCount)
getWorkflowRun(row) == [f \in RunColumns |-> row[f]]

\* updateWorkflowRun: only these four keys of `updates` reach the UPDATE
UpdatedColumns == {"status", "categorizedCount", "reviewQueueCount", "completedAt"}
CounterColumns == {"categorizedCount", "reviewQueueCount"}

updateWorkflowRun(row, updates) ==
  [f \in DOMAIN row |->
     IF f \in UpdatedColumns /\ f \in DOMAIN updates
     THEN (IF f \in CounterColumns THEN updates[f].v ELSE updates[f])
     ELSE row[f]]

\* updateRunStats: newValue = run[field] + increment, written back later
RunStatsUpdate(snap, field, increment) ==
  field :> JsAdd(JsProp(snap, field), Num(increment))

\* the two-counter update of the handlers that resolve a review item
ResolvedUpdateSwapped(snap) ==
  [categorizedCount |-> JsAdd(JsProp(snap, "categorizedCount"), Num(-1)),
   reviewQueueCount |-> JsAdd(JsProp(snap, "reviewQueueCount"), Num(1))]

ResolvedUpdate(snap) ==
  [categorizedCount |-> JsAdd(JsProp(snap, "categorizedCount"), Num(1)),
   reviewQueueCount |-> JsAdd(JsProp(snap, "reviewQueueCount"), Num(-1))]

\* the update of handleTransactionSplit
SplitUpdate(snap) ==
  [reviewQueueCount |-> JsAdd(JsProp(snap, "reviewQueueCount"), Num(-1))]

\* trackRunCompletion: processedCount of a run object
ProcessedCount(r) ==
  JsAdd(JsAdd(JsProp(r, "categorizedCount"), JsProp(r, "reviewQueueCount")),
        JsProp(r, "failedCount"))

\* a tracker that writes the completion without looking at the run it read
CompletionUpdateUnguarded(r, t) ==
  [status |-> "categorization_done", completedAt |-> t]

\* trackRunCompletion: the update one check of a run object leads to, if any
CompletionUpdate(r, t) ==
  IF r.status # "processing" THEN <<>>
  ELSE IF JsGe(ProcessedCount(r), Num(r.totalExpenses))
       THEN [status |-> "categorization_done", completedAt |-> t]
       ELSE <<>>

\* ------------------------------------------------------------- tables
\* ROOT_CATEGORIES (the first two); parentId null is ""
ROOT_CATEGORIES ==
  {[id |-> "0", name |-> "Root", parentId |-> ""],
   [id |-> "1", name |-> "Fixed Costs", parentId |-> "0"]}

\* String.toLowerCase on the names that occur
Lower(str) ==
  CASE str = "Root" -> "root"
    [] str = "Fixed Costs" -> "fixed costs"
    [] str = "FIXED COSTS" -> "fixed costs"
    [] str = "Coffee" -> "coffee"
    [] OTHER -> str

findCategoryByNameExact(cats, name) == {c \in cats : c.name = name}

\* findCategoryByName: the categories whose name matches case-insensitively
findCategoryByName(cats, name) == {c \in cats : Lower(c.name) = Lower(name)}

\* findCategoryByNameAndParent: WHERE LOWER(name) = LOWER(?) AND parentId = ?
\* ("" stands for a null parentId: parentId = NULL is true of no row)
findCategoryByNameAndParent(cats, name, parentId) ==
  IF parentId = "" THEN {}
  ELSE {c \in cats : Lower(c.name) = Lower(name) /\ c.parentId = parentId}

\* the ids `cat_${Date.now()}_${random}` in the order they are generated
CatIds == <<"cat_a", "cat_b", "cat_c", "cat_d", "cat_e", "cat_f">>
NewCategoryId(cats) == CatIds[Cardinality(cats \ ROOT_CATEGORIES) + 1]

\* createCategory: INSERT INTO categories
createCategory(cats, category) == cats \cup {category}

\* the expense rows ingested for the run: expense 1 is an Amazon charge;
\* the rows of a file are of one run and, here, of different dates
TopLevelExpense(i) ==
  [id |-> i, runId |-> "run_1", date |-> i, parentExpenseId |-> 0,
   isSubExpense |-> FALSE, amount |-> 10,
   merchant |-> IF i = 1 THEN "AMAZON MKTPL"
                ELSE IF i = 2 THEN "Blue Bottle" ELSE "VENMO PAYMENT"]

isAmazonNever(expense) == FALSE

\* expense.merchant.toLowerCase().includes('amazon')
isAmazon(expense) == expense.merchant \in {"AMAZON MKTPL", "Amazon.com"}

\* the columns of categorizations that the INSERT of saveCategorization
\* names (of those modelled); the table has no column for categorizationSource
CategorizationColumns == {"expenseId", "categoryId", "confidence"}
StoredRow(row) == [f \in CategorizationColumns |-> row[f]]

saveCategorizationOrIgnore(table, row) ==
  [e \in DOMAIN table \cup {row.expenseId} |->
     IF e \in DOMAIN table THEN table[e] ELSE StoredRow(row)]

\* saveCategorization: INSERT OR REPLACE keyed by expenseId
saveCategorization(table, row) ==
  [e \in DOMAIN table \cup {row.expenseId} |->
     IF e = row.expenseId THEN StoredRow(row) ELSE table[e]]

\* the Categorization object of a caller that gives no categorizationSource
Categorization(e, categoryId, confidence) ==
  [expenseId |-> e, categoryId |-> categoryId, confidence |-> confidence]

\* the Categorization object of a caller that gives one
CategorizationFrom(e, categoryId, confidence, source) ==
  [expenseId |-> e, categoryId |-> categoryId, confidence |-> confidence,
   categorizationSource |-> source]

\* getCategorization(...).categorizationSource ("" for undefined)
SourceOf(row) ==
  IF "categorizationSource" \in DOMAIN row THEN row.categorizationSource ELSE ""

addToReviewQueueOrReplace(table, item) ==
  [e \in DOMAIN table \cup {item.expenseId} |->
     IF e = item.expenseId THEN item ELSE table[e]]

\* addToReviewQueue: INSERT OR IGNORE keyed by id = review_<expenseId>
addToReviewQueue(table, item) ==
  IF item.expenseId \in DOMAIN table THEN table
  ELSE [e \in DOMAIN table \cup {item.expenseId} |->
          IF e = item.expenseId THEN item ELSE table[e]]

\* resolveReviewQueueItem: UPDATE ... SET status = 'resolved' WHERE id = ?
resolveReviewQueueItem(table, e) ==
  [x \in DOMAIN table |->
     IF x = e THEN [table[x] EXCEPT !.status = "resolved"] ELSE table[x]]

\* markRetryInProgress: UPDATE ... SET retryingAt = ? WHERE id = ?
markRetryInProgress(table, e) ==
  [x \in DOMAIN table |->
     IF x = e THEN [table[x] EXCEPT !.retrying = TRUE] ELSE table[x]]

\* the UPDATE when it sets status = 'pending' as well
updateReviewQueueItemSuggestionReopening(table, e, categoryId, confidence, newCategory) ==
  [x \in DOMAIN table |->
     IF x = e
     THEN [table[x] EXCEPT !.categoryId = categoryId, !.confidence = confidence,
                           !.newCategory = newCategory,
                           !.retryCount = table[x].retryCount + 1,
                           !.retrying = FALSE, !.status = "pending"]
     ELSE table[x]]

\* updateReviewQueueItemSuggestion: the suggestion is replaced,
\* retryCount = retryCount + 1, retryingAt = NULL
updateReviewQueueItemSuggestion(table, e, categoryId, confidence, newCategory) ==
  [x \in DOMAIN table |->
     IF x = e
     THEN [table[x] EXCEPT !.categoryId = categoryId, !.confidence = confidence,
                           !.newCategory = newCategory,
                           !.retryCount = table[x].retryCount + 1,
                           !.retrying = FALSE]
     ELSE table[x]]

\* validateSubExpenseSums: Math.abs(sum - parentAmount) > tolerance throws
SumOf(amounts) ==
  LET Sum[i \in 0..Len(amounts)] == IF i = 0 THEN 0 ELSE Sum[i - 1] + amounts[i]
  IN Sum[Len(amounts)]

Abs(x) == IF x < 0 THEN -x ELSE x

validateSubExpenseSumsStrict(parentAmount, amounts) ==
  ~(Abs(SumOf(amounts) - parentAmount) >= Tolerance)

validateSubExpenseSums(parentAmount, amounts) ==
  ~(Abs(SumOf(amounts) - parentAmount) > Tolerance)

\* a split of the request body: its amount and its merchant ("" when the
\* body gives none)
Split(amount, merchant) == [amount |-> amount, merchant |-> merchant]
Splits(amounts) == [i \in 1..Len(amounts) |-> Split(amounts[i], "")]
SplitAmounts(splits) == [i \in 1..Len(splits) |-> splits[i].amount]

\* cleanCsvString: runs of whitespace become one space, the ends are trimmed
\* (of the merchants that occur only "Corner  Cafe " is changed by it)
cleanCsvString(str) == IF str = "Corner  Cafe " THEN "Corner Cafe" ELSE str

\* createSubExpenses: the ids are fresh (timestamp and random suffix), one
\* row per split, merchant = split.merchant || parent.merchant
SubExpenseIds(table, splits) ==
  LET top == CHOOSE m \in DOMAIN table : \A x \in DOMAIN table : x <= m
  IN {top + k : k \in 1..Len(splits)}

createSubExpensesParentMerchant(table, parent, splits) ==
  LET top == CHOOSE m \in DOMAIN table : \A x \in DOMAIN table : x <= m
  IN [x \in DOMAIN table \cup SubExpenseIds(table, splits) |->
        IF x \in DOMAIN table THEN table[x]
        ELSE [id |-> x, runId |-> parent.runId, date |-> parent.date,
              parentExpenseId |-> parent.id, isSubExpense |-> TRUE,
              amount |-> splits[x - top].amount,
              merchant |-> cleanCsvString(parent.merchant)]]

createSubExpenses(table, parent, splits) ==
  LET top == CHOOSE m \in DOMAIN table : \A x \in DOMAIN table : x <= m
  IN [x \in DOMAIN table \cup SubExpenseIds(table, splits) |->
        IF x \in DOMAIN table THEN table[x]
        ELSE [id |-> x, runId |-> parent.runId, date |-> parent.date,
              parentExpenseId |-> parent.id, isSubExpense |-> TRUE,
              amount |-> splits[x - top].amount,
              merchant |-> cleanCsvString(IF splits[x - top].merchant # ""
                                          THEN splits[x - top].merchant
                                          ELSE parent.merchant)]]

\* a ReviewQueueItem as the handlers of categorizeExpense build it
ReviewItem(e, reason, categoryId, confidence, newCategory) ==
  [expenseId |-> e, runId |-> "run_1", reason |-> reason, status |-> "pending",
   categoryId |-> categoryId, confidence |-> confidence,
   newCategory |-> newCategory, retryCount |-> 0, retrying |-> FALSE]

\* ---------------------------------------------------------------- LLM
\* What callLLM can return.  "" and 0 stand for an absent (falsy) field.
Confidences == {0, 69, 70}
NewNames == {"Coffee", "FIXED COSTS"}
\* the newCategory.parentId of every proposal: the prompt asks for an
\* existing category other than Root
ProposedParentId == "1"
LlmResponses ==
  [action : {"categorize"}, categoryId : {"1"}, confidence : Confidences,
   newCategory : {""}]
  \cup [action : {"create_subcategory"}, categoryId : {""}, confidence : {80},
        newCategory : NewNames]
  \cup [action : {"needs_human_review"}, categoryId : {""}, confidence : {0},
        newCategory : {""}]

\* ------------------------------------------------------ events and runs
\* `again` marks the copy of an event that the substrate delivers a second time
\* (no sender of review/item.resolved sets data.resolution); alreadySaved and
\* autoResolved are the flags the two automatic re-runs put on that event
Event(name, e, categoryId) ==
  [name |-> name, expenseId |-> e, categoryId |-> categoryId, resolutionType |-> "",
   alreadySaved |-> FALSE, autoResolved |-> FALSE, again |-> FALSE]

One(x) == SetToBag({x})

TrackingEvents == {"expenses/expense.categorized", "expenses/expense.needs_review",
                   "expenses/expense.failed"}

\* a function run in flight: its function, its position and its locals
\* (ids: the expense ids of a tracker's batch, or the subExpenseIds of a split)
FnRun(fn, e, pc, snap, field, signal, categoryId, ids) ==
  [fn |-> fn, expenseId |-> e, pc |-> pc, snap |-> snap, field |-> field,
   signal |-> signal, categoryId |-> categoryId, ids |-> ids]

\* what the tables show of an expense
HasChildren(exps, e) == \E c \in DOMAIN exps : exps[c].parentExpenseId = e
HasResolution(cz, e) == e \in DOMAIN cz
HasPending(rq, e) == e \in DOMAIN rq /\ rq[e].status = "pending"

OutcomeOf(exps, cz, rq, e) ==
  IF HasResolution(cz, e) THEN "Categorized"
  ELSE IF HasPending(rq, e)
       THEN (IF rq[e].reason = "llm_failure" THEN "Failed" ELSE "Queued")
       ELSE IF HasChildren(exps, e) THEN "Split" ELSE "Pending"

\* ------------------------------------------------------------ history
\* Number of copies of the tracking events of expense e in a bag
SignalsIn(bag, e) ==
  LET copies(name) == CopiesIn(Event(name, e, ""), bag)
                      + CopiesIn([Event(name, e, "") EXCEPT !.again = TRUE], bag)
  IN copies("expenses/expense.categorized") + copies("expenses/expense.needs_review")
     + copies("expenses/expense.failed")

OutcomeStates == {"Categorized", "Queued", "Failed"}

\* owed and sent follow the tables and the event bag: a change of an
\* expense's state into an outcome state is owed a signal, an emitted
\* signal pays one off.
History ==
  LET before(e) == IF e \in DOMAIN expenses
                   THEN OutcomeOf(expenses, categorizations, review_queue, e)
                   ELSE "Pending"
      after(e) == OutcomeOf(expenses', categorizations', review_queue', e)
      moved(e) == IF after(e) # before(e) /\ after(e) \in OutcomeStates THEN 1 ELSE 0
      emitted(e) == LET d == SignalsIn(events', e) - SignalsIn(events, e)
                    IN IF d > 0 THEN d ELSE 0
      old(f, e) == IF e \in DOMAIN f THEN f[e] ELSE 0
  IN /\ sent' = [e \in DOMAIN expenses' |-> old(sent, e) + emitted(e)]
     /\ owed' = [e \in DOMAIN expenses' |->
                   IF old(owed, e) + moved(e) >= emitted(e)
                   THEN old(owed, e) + moved(e) - emitted(e) ELSE 0]

\* the substrate consumes an event, or keeps a copy to deliver it again
Consume(ev, keep) ==
  /\ keep => redeliveries > 0 /\ ~ev.again
  /\ redeliveries' = IF keep THEN redeliveries - 1 ELSE redeliveries

Remaining(ev, keep) ==
  IF keep THEN (events (-) One(ev)) (+) One([ev EXCEPT !.again = TRUE])
  ELSE events (-) One(ev)

\* ------------------------------------------------ categorizeExpense
\* Step 5 of categorizeExpense: which handler takes the response
IsCategorize(r) == r.action = "categorize" /\ r.categoryId # "" /\ r.confidence # 0
IsHighConfidenceStrict(r) == IsCategorize(r) /\ r.confidence > CONFIDENCE_THRESHOLD
IsHighConfidence(r) == IsCategorize(r) /\ r.confidence >= CONFIDENCE_THRESHOLD
IsNewCategory(r) == ~IsCategorize(r) /\ r.action = "create_subcategory" /\ r.newCategory # ""

\* the review item of handleLowConfidenceCategorization,
\* handleNewCategoryRequest and handleObfuscatedMerchant
ReviewItemFor(expense, r, cats) ==
  LET e == expense.id
      existing == findCategoryByName(cats, r.newCategory)
  IN IF IsCategorize(r)
     THEN ReviewItem(e, "low_confidence", r.categoryId, r.confidence, "")
     ELSE IF IsNewCategory(r)
     THEN (IF existing # {}
           THEN ReviewItem(e, IF isAmazon(expense) THEN "amazon_should_split"
                              ELSE "duplicate_category_suggested",
                           (CHOOSE c \in existing : TRUE).id,
                           IF r.confidence # 0 THEN r.confidence ELSE 80, "")
           ELSE ReviewItem(e, "new_category_suggestion", "", 0, r.newCategory))
     ELSE ReviewItem(e, IF isAmazon(expense) THEN "amazon_should_split" ELSE "ambiguous",
                     "", 0, "")

\* An expenses/categorize event is delivered, steps fetch-expense ..
\* llm-categorization run and the LLM answers r; the outcome step runs up
\* to the read of the run in updateRunStats.  `inserted` is FALSE when the
\* INSERT of addToReviewQueue throws: its catch logs and returns
CategorizeThrough(ev, keep, r, inserted) ==
  /\ ev.name = "expenses/categorize"
  /\ ev.expenseId \in DOMAIN expenses
  /\ Consume(ev, keep)
  /\ events' = Remaining(ev, keep)
  /\ IF IsHighConfidence(r)
     THEN /\ categorizations' = saveCategorization(categorizations,
                CategorizationFrom(ev.expenseId, r.categoryId, r.confidence,
                                   "auto"))
          /\ UNCHANGED review_queue
          /\ fnRuns' = fnRuns (+)
               One(FnRun("categorizeExpense", ev.expenseId, "updateRunStats",
                         getWorkflowRun(run), "categorizedCount",
                         "expenses/expense.categorized", "", {}))
     ELSE /\ review_queue' =
                IF inserted
                THEN addToReviewQueue(review_queue,
                       ReviewItemFor(expenses[ev.expenseId], r, categories))
                ELSE review_queue
          /\ UNCHANGED categorizations
          /\ fnRuns' = fnRuns (+)
               One(FnRun("categorizeExpense", ev.expenseId, "updateRunStats",
                         getWorkflowRun(run), "reviewQueueCount",
                         "expenses/expense.needs_review", "", {}))
  /\ UNCHANGED <<run, expenses, categories, now, humanOps, statusWrites, tracked,
                 retracked>>
  /\ History

\* the same when every INSERT goes through
CategorizeWith(ev, keep, r) == CategorizeThrough(ev, keep, r, TRUE)

Categorize(responses) ==
  \E ev \in BagToSet(events), keep \in BOOLEAN, r \in responses :
    CategorizeWith(ev, keep, r)

\* updateRunStats writes the counter back, the tracking event is sent and
\* the function returns
StatsWrite ==
  \E fr \in BagToSet(fnRuns) :
    /\ fr.fn = "categorizeExpense" /\ fr.pc = "updateRunStats"
    /\ run' = updateWorkflowRun(run, RunStatsUpdate(fr.snap, fr.field, 1))
    /\ events' = events (+) One(Event(fr.signal, fr.expenseId, ""))
    /\ fnRuns' = fnRuns (-) One(fr)
    /\ UNCHANGED <<expenses, categorizations, review_queue, categories, now,
                   redeliveries, humanOps, statusWrites, tracked, retracked>>
    /\ History

\* An expenses/categorize event is delivered and step llm-categorization
\* throws on the first attempt and on every retry; the substrate then runs
\* onFailure: addToReviewQueue, then the read of
\* updateRunStats(runId, 'reviewQueueCount', 1)
CategorizeFails ==
  \E ev \in BagToSet(events), keep \in BOOLEAN :
    /\ ev.name = "expenses/categorize"
    /\ ev.expenseId \in DOMAIN expenses
    /\ Consume(ev, keep)
    /\ events' = Remaining(ev, keep)
    /\ review_queue' = addToReviewQueue(review_queue,
           ReviewItem(ev.expenseId, "llm_failure", "", 0, ""))
    /\ fnRuns' = fnRuns (+)
         One(FnRun("categorizeExpense", ev.expenseId, "onFailure",
                   getWorkflowRun(run), "reviewQueueCount",
                   "expenses/expense.failed", "", {}))
    /\ UNCHANGED <<run, expenses, categorizations, categories, now, humanOps,
                   statusWrites, tracked, retracked>>
    /\ History

\* onFailure: reviewQueueCount is written; updateRunStats(runId,
\* 'failedCount', 1) reads the run again and hands its update to
\* updateWorkflowRun; expenses/expense.failed is sent
OnFailureWrite ==
  \E fr \in BagToSet(fnRuns) :
    /\ fr.fn = "categorizeExpense" /\ fr.pc = "onFailure"
    /\ LET counted == updateWorkflowRun(run, RunStatsUpdate(fr.snap, fr.field, 1))
       IN run' = updateWorkflowRun(counted,
                    RunStatsUpdate(getWorkflowRun(counted), "failedCount", 1))
    /\ events' = events (+) One(Event(fr.signal, fr.expenseId, ""))
    /\ fnRuns' = fnRuns (-) One(fr)
    /\ UNCHANGED <<expenses, categorizations, review_queue, categories, now,
                   redeliveries, humanOps, statusWrites, tracked, retracked>>
    /\ History

\* ------------------------------------------------ trackRunCompletion
TrackerFn(name) ==
  CASE name = "expenses/expense.categorized" -> "trackRunCompletion"
    [] name = "expenses/expense.needs_review" -> "trackRunCompletionFromReview"
    [] name = "expenses/expense.failed" -> "trackRunCompletionFromFailure"

\* one of the three batched functions receives a batch of its events and
\* reads the run (for (const runId of runIds) { getWorkflowRun ... )
TrackRead ==
  \E name \in TrackingEvents, keep \in BOOLEAN :
    \E batch \in SUBSET {ev \in BagToSet(events) : ev.name = name} :
      /\ batch # {}
      /\ keep => redeliveries > 0 /\ \A ev \in batch : ~ev.again
      /\ redeliveries' = IF keep THEN redeliveries - 1 ELSE redeliveries
      /\ events' = IF keep
                   THEN (events (-) SetToBag(batch)) (+)
                        SetToBag({[ev EXCEPT !.again = TRUE] : ev \in batch})
                   ELSE events (-) SetToBag(batch)
      /\ fnRuns' = fnRuns (+)
           One(FnRun(TrackerFn(name), 0, "check", getWorkflowRun(run), "", name, "",
                     {ev.expenseId : ev \in batch}))
      /\ UNCHANGED <<run, expenses, categorizations, review_queue, categories, now,
                     humanOps, statusWrites, tracked, retracked>>
      /\ History

\* the tracker compares processedCount with totalExpenses and updates the run
TrackWrite ==
  \E fr \in BagToSet(fnRuns) :
    /\ fr.pc = "check"
    /\ LET upd == CompletionUpdate(fr.snap, now)
           handled == {<<fr.signal, e>> : e \in fr.ids}
       IN /\ run' = updateWorkflowRun(run, upd)
          /\ statusWrites' = IF DOMAIN upd # {} THEN statusWrites + 1 ELSE statusWrites
          /\ now' = IF DOMAIN upd # {} THEN now + 1 ELSE now
          /\ retracked' = IF handled \subseteq tracked THEN retracked + 1 ELSE retracked
          /\ tracked' = tracked \cup handled
    /\ fnRuns' = fnRuns (-) One(fr)
    /\ UNCHANGED <<expenses, categorizations, review_queue, categories, events,
                   redeliveries, humanOps>>
    /\ History

\* ------------------------------------------------------ review handlers
\* category ids a reviewer submits, and the splits a reviewer submits for
\* an expense of amount 10 (the second misses the amount by 2)
ReviewCategoryIds == {"1"}
ReviewSplits == {<<5, 5>>, <<5, 3>>}

\* POST categorize with a categoryId: handleCategorizeReview finds the item
\* and the expense, handleNormalCategorization saves, resolves and sends
\* review/item.resolved
HandleNormalCategorizationOf(e, categoryId) ==
  /\ humanOps > 0
  /\ humanOps' = humanOps - 1
  /\ e \in DOMAIN expenses
  /\ categorizations' = saveCategorization(categorizations,
                           Categorization(e, categoryId, 100))
  /\ review_queue' = resolveReviewQueueItem(review_queue, e)
  /\ events' = events (+) One(Event("review/item.resolved", e, categoryId))
  /\ UNCHANGED <<run, expenses, categories, fnRuns, now, redeliveries,
                 statusWrites, tracked, retracked>>
  /\ History

HandleNormalCategorization ==
  \E e \in DOMAIN review_queue, categoryId \in ReviewCategoryIds : HandleNormalCategorizationOf(e, categoryId)

\* POST categorize with splitTransaction: handleTransactionSplit validates
\* the amounts (400 when they miss the parent's), creates the sub-expenses,
\* resolves the item and reads the run
HandleTransactionSplitWith(e, splits) ==
  /\ humanOps > 0
  /\ humanOps' = humanOps - 1
  /\ e \in DOMAIN expenses
  /\ IF validateSubExpenseSums(expenses[e].amount, SplitAmounts(splits))
     THEN /\ expenses' = createSubExpenses(expenses, expenses[e], splits)
          /\ review_queue' = resolveReviewQueueItem(review_queue, e)
          /\ fnRuns' = fnRuns (+)
               One(FnRun("handleTransactionSplit", e, "updateWorkflowRun",
                         getWorkflowRun(run), "", "review/item.resolved", "SPLIT",
                         SubExpenseIds(expenses, splits)))
     ELSE UNCHANGED <<expenses, review_queue, fnRuns>>
  /\ UNCHANGED <<run, categorizations, categories, events, now, redeliveries,
                 statusWrites, tracked, retracked>>
  /\ History

HandleSplitRequest(requests) ==
  \E e \in DOMAIN review_queue, splits \in requests :
    HandleTransactionSplitWith(e, splits)

HandleTransactionSplitUnvalidated(e, amounts) ==
  /\ humanOps > 0
  /\ humanOps' = humanOps - 1
  /\ e \in DOMAIN expenses
  /\ expenses' = createSubExpenses(expenses, expenses[e], Splits(amounts))
  /\ review_queue' = resolveReviewQueueItem(review_queue, e)
  /\ fnRuns' = fnRuns (+)
       One(FnRun("handleTransactionSplit", e, "updateWorkflowRun",
                 getWorkflowRun(run), "", "review/item.resolved", "SPLIT",
                 SubExpenseIds(expenses, amounts)))
  /\ UNCHANGED <<run, categorizations, categories, events, now, redeliveries,
                 statusWrites, tracked, retracked>>
  /\ History

\* the same request when no split names a merchant
HandleTransactionSplitOf(e, amounts) == HandleTransactionSplitWith(e, Splits(amounts))

HandleTransactionSplit(splits) ==
  \E e \in DOMAIN review_queue, amounts \in splits :
    HandleTransactionSplitOf(e, amounts)

\* handleTransactionSplit writes reviewQueueCount, sends review/item.resolved
\* with categoryId "SPLIT" and one expenses/categorize per sub-expense
SplitWriteOf(fr) ==
  /\ fr \in BagToSet(fnRuns)
  /\ fr.fn = "handleTransactionSplit" /\ fr.pc = "updateWorkflowRun"
  /\ run' = updateWorkflowRun(run, SplitUpdate(fr.snap))
  /\ events' = events (+) One(Event(fr.signal, fr.expenseId, fr.categoryId))
                      (+) SetToBag({Event("expenses/categorize", c, "") : c \in fr.ids})
  /\ fnRuns' = fnRuns (-) One(fr)
  /\ UNCHANGED <<expenses, categorizations, review_queue, categories, now,
                 redeliveries, humanOps, statusWrites, tracked, retracked>>
  /\ History

SplitWrite == \E fr \in BagToSet(fnRuns) : SplitWriteOf(fr)

\* POST retry: handleRetryReview finds the item and sends review/retry.requested
HandleRetryReview ==
  \E e \in DOMAIN review_queue :
    /\ humanOps > 0
    /\ humanOps' = humanOps - 1
    /\ events' = events (+) One(Event("review/retry.requested", e, ""))
    /\ UNCHANGED <<run, expenses, categorizations, review_queue, categories, fnRuns,
                   now, redeliveries, statusWrites, tracked, retracked>>
    /\ History

\* ------------------------------------------- retryReviewCategorization
\* review/retry.requested is delivered; the item is marked, the LLM answers
\* r; a high confidence answer is saved and the item resolved up to the
\* read of the run, any other answer replaces the suggestion
RetryReview(responses) ==
  \E ev \in BagToSet(events), keep \in BOOLEAN, r \in responses :
    /\ ev.name = "review/retry.requested"
    /\ ev.expenseId \in DOMAIN review_queue
    /\ ev.expenseId \in DOMAIN expenses
    /\ Consume(ev, keep)
    /\ IF IsHighConfidence(r)
       THEN /\ categorizations' = saveCategorization(categorizations,
                  Categorization(ev.expenseId, r.categoryId, r.confidence))
            /\ review_queue' = resolveReviewQueueItem(
                  markRetryInProgress(review_queue, ev.expenseId), ev.expenseId)
            /\ fnRuns' = fnRuns (+)
                 One(FnRun("retryReviewCategorization", ev.expenseId,
                           "updateWorkflowRun", getWorkflowRun(run), "",
                           "review/item.resolved", r.categoryId, {}))
            /\ events' = Remaining(ev, keep)
       ELSE /\ review_queue' = updateReviewQueueItemSuggestion(
                  markRetryInProgress(review_queue, ev.expenseId), ev.expenseId,
                  IF IsCategorize(r) THEN r.categoryId ELSE "",
                  IF IsCategorize(r) THEN r.confidence ELSE 0,
                  IF IsNewCategory(r) THEN r.newCategory ELSE "")
            /\ events' = Remaining(ev, keep)
                           (+) One(Event("review/suggestion.updated", ev.expenseId, ""))
            /\ UNCHANGED <<categorizations, fnRuns>>
    /\ UNCHANGED <<run, expenses, categories, now, humanOps, statusWrites, tracked,
                   retracked>>
    /\ History

\* the LLM throws on the first attempt and on every retry: the function
\* fails after mark-retry-in-progress (it has no onFailure)
RetryReviewFails ==
  \E ev \in BagToSet(events), keep \in BOOLEAN :
    /\ ev.name = "review/retry.requested"
    /\ ev.expenseId \in DOMAIN review_queue
    /\ ev.expenseId \in DOMAIN expenses
    /\ Consume(ev, keep)
    /\ events' = Remaining(ev, keep)
    /\ review_queue' = markRetryInProgress(review_queue, ev.expenseId)
    /\ UNCHANGED <<run, expenses, categorizations, categories, fnRuns, now, humanOps,
                   statusWrites, tracked, retracked>>
    /\ History

\* step auto-resolve-high-confidence writes both counters and sends
\* review/item.resolved
RetryWrite ==
  \E fr \in BagToSet(fnRuns) :
    /\ fr.fn = "retryReviewCategorization" /\ fr.pc = "updateWorkflowRun"
    /\ run' = updateWorkflowRun(run, ResolvedUpdate(fr.snap))
    /\ events' = events (+) One([Event(fr.signal, fr.expenseId, fr.categoryId)
                                   EXCEPT !.alreadySaved = TRUE])
    /\ fnRuns' = fnRuns (-) One(fr)
    /\ UNCHANGED <<expenses, categorizations, review_queue, categories, now,
                   redeliveries, humanOps, statusWrites, tracked, retracked>>
    /\ History

\* --------------------------------------------- completeReviewedExpense
\* review/item.resolved is delivered; step save-resolution takes the split
\* branch when the event carries resolution.type 'split', else with a
\* categoryId it saves the categorization, resolves the item and reads the run
CompleteReviewedOf(ev, keep) ==
  /\ ev.name = "review/item.resolved"
  /\ ev.expenseId \in DOMAIN review_queue
  /\ ev.expenseId \in DOMAIN expenses
  /\ Consume(ev, keep)
  /\ events' = Remaining(ev, keep)
  /\ IF ev.resolutionType = "split"
     THEN /\ review_queue' = resolveReviewQueueItem(review_queue, ev.expenseId)
          /\ UNCHANGED <<categorizations, fnRuns>>
     ELSE IF ev.categoryId # ""
     THEN /\ categorizations' = saveCategorization(categorizations,
                CategorizationFrom(ev.expenseId, ev.categoryId, 100, "manual"))
          /\ review_queue' = resolveReviewQueueItem(review_queue, ev.expenseId)
          /\ fnRuns' = fnRuns (+)
               One(FnRun("completeReviewedExpense", ev.expenseId,
                         "updateWorkflowRun", getWorkflowRun(run), "",
                         "expenses/expense.categorized", ev.categoryId, {}))
     ELSE UNCHANGED <<categorizations, review_queue, fnRuns>>
  /\ UNCHANGED <<run, expenses, categories, now, humanOps, statusWrites, tracked,
                 retracked>>
  /\ History

CompleteReviewed ==
  \E ev \in BagToSet(events), keep \in BOOLEAN : CompleteReviewedOf(ev, keep)

\* step save-resolution writes both counters and sends the tracking event
CompleteWriteSilent ==
  \E fr \in BagToSet(fnRuns) :
    /\ fr.fn = "completeReviewedExpense" /\ fr.pc = "updateWorkflowRun"
    /\ run' = updateWorkflowRun(run, ResolvedUpdate(fr.snap))
    /\ fnRuns' = fnRuns (-) One(fr)
    /\ UNCHANGED <<expenses, categorizations, review_queue, categories, events, now,
                   redeliveries, humanOps, statusWrites, tracked, retracked>>
    /\ History

CompleteWrite ==
  \E fr \in BagToSet(fnRuns) :
    /\ fr.fn = "completeReviewedExpense" /\ fr.pc = "updateWorkflowRun"
    /\ run' = updateWorkflowRun(run, ResolvedUpdate(fr.snap))
    /\ events' = events (+) One(Event(fr.signal, fr.expenseId, ""))
    /\ fnRuns' = fnRuns (-) One(fr)
    /\ UNCHANGED <<expenses, categorizations, review_queue, categories, now,
                   redeliveries, humanOps, statusWrites, tracked, retracked>>
    /\ History

\* -------------------------------------------------------- quiescence
ConsumedEvents == TrackingEvents \cup {"expenses/categorize", "review/item.resolved",
                                       "review/retry.requested"}

\* nothing is in flight: no function run and no event a function waits for
Quiescent ==
  /\ fnRuns = EmptyBag
  /\ \A ev \in BagToSet(events) : ev.name \notin ConsumedEvents

AllOutcome ==
  \A e \in DOMAIN expenses :
    OutcomeOf(expenses, categorizations, review_queue, e) \in OutcomeStates

\* ------------------------------------------------------ specifications
\* processExpenses has ingested the file, created the run and sent one
\* expenses/categorize event per top-level expense
InitWith(n, redeliver, human) ==
  /\ run = createWorkflowRun(n)
  /\ expenses = [i \in 1..n |-> TopLevelExpense(i)]
  /\ categorizations = <<>>
  /\ review_queue = <<>>
  /\ categories = ROOT_CATEGORIES
  /\ events = SetToBag({Event("expenses/categorize", i, "") : i \in 1..n})
  /\ fnRuns = EmptyBag
  /\ now = 1
  /\ redeliveries = redeliver
  /\ humanOps = human
  /\ statusWrites = 0
  /\ tracked = {}
  /\ retracked = 0
  /\ owed = [i \in 1..n |-> 0]
  /\ sent = [i \in 1..n |-> 0]

\* the answers of the LLM in the unattended batch: confidence 0.9 or 0.5
BatchResponses == {r \in [action : {"categorize"}, categoryId : {"1"},
                          confidence : {50, 90}, newCategory : {""}] : TRUE}

\* an unattended batch: classification, failure handling and the trackers
InitBatch == InitWith(BatchItems, 0, 0)

NextBatch ==
  \/ Categorize(BatchResponses)
  \/ CategorizeFails
  \/ StatsWrite
  \/ OnFailureWrite
  \/ TrackRead
  \/ TrackWrite

SpecBatch == InitBatch /\ [][NextBatch]_vars

\* the same, with events the substrate delivers a second time
InitDup == InitWith(DupItems, MaxRedeliver, 0)

NextDup ==
  \/ Categorize(BatchResponses)
  \/ CategorizeFails
  \/ StatsWrite
  \/ OnFailureWrite
  \/ TrackRead
  \/ TrackWrite

SpecDup == InitDup /\ [][NextDup]_vars

\* a batch under review: classification, failure handling, the reviewer's
\* requests and the functions they trigger.  The trackers write only status
\* and completedAt, which none of these handlers reads; SpecBatch has them.
Init == InitWith(NumItems, 0, MaxHuman)

Next ==
  \/ Categorize(LlmResponses)
  \/ CategorizeFails
  \/ StatsWrite
  \/ OnFailureWrite
  \/ HandleNormalCategorization
  \/ HandleTransactionSplit(ReviewSplits)
  \/ SplitWrite
  \/ HandleRetryReview
  \/ RetryReview(LlmResponses)
  \/ RetryReviewFails
  \/ RetryWrite
  \/ CompleteReviewed
  \/ CompleteWrite

Spec == Init /\ [][Next]_vars

\* the same system when the functions and request handlers run one at a
\* time: a handler starts only when no function run is in flight, so a run's
\* read of the workflow_runs row and its write are not interleaved with
\* other handlers
Idle == fnRuns = EmptyBag

\* splitTransaction bodies with one sub-expense: the whole amount of 10,
\* 0.01 less (within the tolerance) and 0.02 less
WholeSplits == {<<10>>, <<9>>, <<8>>}

NextSerial ==
  \/ Idle /\ Categorize(LlmResponses)
  \/ Idle /\ CategorizeFails
  \/ StatsWrite
  \/ OnFailureWrite
  \/ Idle /\ HandleNormalCategorization
  \/ Idle /\ HandleTransactionSplit(WholeSplits)
  \/ SplitWrite
  \/ Idle /\ HandleRetryReview
  \/ Idle /\ RetryReview(LlmResponses)
  \/ Idle /\ RetryReviewFails
  \/ RetryWrite
  \/ Idle /\ CompleteReviewed
  \/ CompleteWrite

SpecSerial == Init /\ [][NextSerial]_vars

\* ------------------------------------------------------------ taxonomy
TaxItems == 2          \* top-level expenses of the run (SpecTaxonomy, SpecPropose)
TaxOps == 2            \* requests that may create a category

\* the createNewCategory bodies of the reviewer and the bodies posted to the
\* categories endpoint ("" is an absent parentId)
ProposedNames == {"Coffee", "coffee"}
ProposedParents == {"1", ""}
NewCategoryInputs == [name : ProposedNames, parentId : ProposedParents]

\* POST categorize with createNewCategory: handleCategorizeReview finds the
\* item and the expense, handleNormalCategorization awaits
\* findCategoryByNameAndParent (rows[0] of an unordered SELECT)
HandleNewCategoryFindOf(e, nc) ==
  LET rows == findCategoryByNameAndParent(categories, nc.name, nc.parentId)
  IN \E existing \in (IF rows = {} THEN {""} ELSE {c.id : c \in rows}) :
       /\ humanOps > 0
       /\ humanOps' = humanOps - 1
       /\ e \in DOMAIN expenses
       /\ fnRuns' = fnRuns (+)
            One(FnRun("handleNormalCategorization", e, "createCategory", nc, "",
                      "review/item.resolved", existing, {}))
       /\ UNCHANGED <<run, expenses, categorizations, review_queue, categories,
                      events, now, redeliveries, statusWrites, tracked, retracked>>
       /\ History

HandleNewCategoryFind ==
  \E e \in DOMAIN review_queue, nc \in NewCategoryInputs : HandleNewCategoryFindOf(e, nc)

\* the rest of handleNormalCategorization: the category found is used, or
\* one is created under a fresh id; the categorization is saved, the item
\* resolved and review/item.resolved sent
HandleNewCategorySave ==
  \E fr \in BagToSet(fnRuns) :
    /\ fr.fn = "handleNormalCategorization" /\ fr.pc = "createCategory"
    /\ LET finalCategoryId == IF fr.categoryId # "" THEN fr.categoryId
                              ELSE NewCategoryId(categories)
       IN /\ categories' =
               IF fr.categoryId # "" THEN categories
               ELSE createCategory(categories,
                      [id |-> finalCategoryId, name |-> fr.snap.name,
                       parentId |-> fr.snap.parentId])
          /\ categorizations' = saveCategorization(categorizations,
                                   Categorization(fr.expenseId, finalCategoryId, 100))
          /\ review_queue' = resolveReviewQueueItem(review_queue, fr.expenseId)
          /\ events' = events (+)
               One(Event(fr.signal, fr.expenseId, finalCategoryId))
    /\ fnRuns' = fnRuns (-) One(fr)
    /\ UNCHANGED <<run, expenses, now, redeliveries, humanOps, statusWrites,
                   tracked, retracked>>
    /\ History

\* POST to the categories endpoint: handleCreateCategory answers 400 when a
\* field is missing and inserts under a fresh id otherwise
HandleCreateCategory ==
  \E name \in ProposedNames, parentId \in ProposedParents :
    /\ humanOps > 0
    /\ humanOps' = humanOps - 1
    /\ categories' =
         IF parentId = "" THEN categories
         ELSE createCategory(categories,
                [id |-> NewCategoryId(categories), name |-> name,
                 parentId |-> parentId])
    /\ UNCHANGED <<run, expenses, categorizations, review_queue, events, fnRuns,
                   now, redeliveries, statusWrites, tracked, retracked>>
    /\ History

\* the answers of the LLM that propose a category
TaxResponses == {r \in LlmResponses : r.action = "create_subcategory"}

InitTaxonomy == InitWith(TaxItems, 0, TaxOps)

\* the review flow of proposed categories
NextPropose ==
  \/ Categorize(TaxResponses)
  \/ StatsWrite
  \/ HandleNewCategoryFind
  \/ HandleNewCategorySave
  \/ CompleteReviewed
  \/ CompleteWrite

SpecPropose == InitTaxonomy /\ [][NextPropose]_vars

\* the same with the categories endpoint
NextTaxonomy ==
  \/ Categorize(TaxResponses)
  \/ StatsWrite
  \/ HandleNewCategoryFind
  \/ HandleNewCategorySave
  \/ HandleCreateCategory
  \/ CompleteReviewed
  \/ CompleteWrite

SpecTaxonomy == InitTaxonomy /\ [][NextTaxonomy]_vars

\* ---------------------------------------------------------------- splits
SplitItems == 1        \* top-level expenses of the run (SpecSplit)
SplitOps == 2          \* split requests the reviewer may issue

InitSplit == InitWith(SplitItems, 0, SplitOps)

\* the classification and the split requests of the reviewer, interleaved
NextSplit ==
  \/ Categorize(BatchResponses)
  \/ StatsWrite
  \/ HandleTransactionSplit(WholeSplits)
  \/ SplitWrite
  \/ CompleteReviewed
  \/ CompleteWrite

SpecSplit == InitSplit /\ [][NextSplit]_vars

\* splits whose children name a merchant; the handlers run one at a time
ChildItems == 2        \* top-level expenses of the run (SpecChildren)
ChildOps == 1          \* split requests the reviewer may issue

\* the splits the reviewer submits for an expense of amount 10: those of
\* WholeSplits, and two halves of which the second names its merchant
SplitRequests ==
  {Splits(amounts) : amounts \in WholeSplits}
    \cup {<<Split(5, ""), Split(5, "Corner  Cafe ")>>}

InitChildren == InitWith(ChildItems, 0, ChildOps)

NextChildren ==
  \/ Idle /\ Categorize(BatchResponses)
  \/ StatsWrite
  \/ Idle /\ HandleSplitRequest(SplitRequests)
  \/ SplitWrite
  \/ Idle /\ CompleteReviewed
  \/ CompleteWrite

SpecChildren == InitChildren /\ [][NextChildren]_vars

\* ------------------------------------------------------ Amazon receipts
AmazonItems == 2       \* items of a receipt, at most (SpecAmazon)
AmazonOps == 1         \* receipts the reviewer may submit

\* parseFloat(s.replace(/[$,]/g, '')) of the prices that occur, in cents
ParsePrice(str) ==
  CASE str = "$0.03" -> 3
    [] str = "0.05" -> 5
    [] str = "$0.08" -> 8
    [] str = "$0.10" -> 10
    [] str = "$0.11" -> 11
    [] str = "$0.12" -> 12
    [] OTHER -> 0

\* an item of amazonItems and an entry of amazonChargeSummary
AmazonItem(price) ==
  [itemTitle |-> "item", unitPrice |-> price, orderedMerchant |-> "Amazon.com"]
SummaryEntry(label, content) == [label |-> label, content |-> content]

\* item.label.toLowerCase().includes('grand total') of the labels that occur
IsGrandTotalLabel(label) == label \in {"Grand Total:", "GRAND TOTAL"}

UnitPrices == {"$0.03", "0.05"}
GrandTotals == {"$0.08", "$0.10", "$0.11", "$0.12"}
ChargeSummaries ==
  {<<>>} \cup {<<SummaryEntry("Item(s) Subtotal:", "$0.08"), SummaryEntry("Grand Total:", g)>> :
                 g \in GrandTotals}
Receipts ==
  {[items |-> its, summary |-> sm] :
     its \in UNION {[1..n -> {AmazonItem(p) : p \in UnitPrices}] : n \in 1..AmazonItems},
     sm \in ChargeSummaries}

\* the difference from which parseAmazonItems adjusts: Math.abs(difference) > 0.01
AdjustThreshold == 1

mostExpensiveIndexLast(amounts) ==
  LET R[i \in 1..Len(amounts)] ==
        IF i = 1 THEN 1
        ELSE IF amounts[i] >= amounts[R[i - 1]] THEN i ELSE R[i - 1]
  IN R[Len(amounts)]

\* items.reduce((maxIdx, item, idx, arr) => item.amount > arr[maxIdx].amount ? idx : maxIdx, 0)
mostExpensiveIndex(amounts) ==
  LET R[i \in 1..Len(amounts)] ==
        IF i = 1 THEN 1
        ELSE IF amounts[i] > amounts[R[i - 1]] THEN i ELSE R[i - 1]
  IN R[Len(amounts)]

\* parseAmazonItems: one split per item at its unit price; with a grand
\* total in the summary that differs from the items' total by more than
\* 0.01, the difference is added to the most expensive item
parseAmazonItems(amazonItems, amazonChargeSummary) ==
  LET items == [i \in 1..Len(amazonItems) |->
                  Split(ParsePrice(amazonItems[i].unitPrice),
                        amazonItems[i].orderedMerchant)]
      found == {i \in 1..Len(amazonChargeSummary) :
                  IsGrandTotalLabel(amazonChargeSummary[i].label)}
  IN IF found = {} THEN items
     ELSE LET first == CHOOSE i \in found : \A j \in found : i <= j
              grandTotal == ParsePrice(amazonChargeSummary[first].content)
              itemsTotal == SumOf(SplitAmounts(items))
              difference == grandTotal - itemsTotal
              idx == mostExpensiveIndex(SplitAmounts(items))
          IN IF Abs(difference) > AdjustThreshold /\ Len(items) > 0
             THEN [items EXCEPT ![idx].amount = @ + difference]
             ELSE items

\* POST categorize with amazonItems and amazonChargeSummary (or
\* amazonOrderDetails): the splits are those of parseAmazonItems
HandleAmazonSplitOf(e, receipt) ==
  HandleTransactionSplitWith(e, parseAmazonItems(receipt.items, receipt.summary))

HandleAmazonSplit ==
  \E e \in DOMAIN review_queue, receipt \in Receipts : HandleAmazonSplitOf(e, receipt)

\* the expense of 0.10 and the sub-expenses are classified with confidence
\* 0.5 and so queued for review; the handlers run one at a time
QueuedResponses == {r \in BatchResponses : r.confidence = 50}

InitAmazon == InitWith(1, 0, AmazonOps)

NextAmazon ==
  \/ Idle /\ Categorize(QueuedResponses)
  \/ StatsWrite
  \/ Idle /\ HandleAmazonSplit
  \/ SplitWrite
  \/ Idle /\ CompleteReviewed
  \/ CompleteWrite

SpecAmazon == InitAmazon /\ [][NextAmazon]_vars

\* ------------------------------------------------------------- ingestion
\* Strings are sequences of characters.  A source row of the CSV file has
\* the columns Date, Description, Amount and "Appears On Your Statement As".
IngestRows == 2        \* rows of the ingested CSV file (SpecIngest)

Dates == {<<"2024-01-05">>}
Descriptions == {<<"a">>, <<"a", "1">>, <<"a", " ", "b">>, <<"a", " ", " ", "b">>,
                 <<" ", "a">>}
Amounts == {<<"1">>, <<"2">>, <<"1", "2">>, <<"0">>}
Merchants == {<<>>, <<"b">>, <<"b", " ">>}
SourceRows == [date : Dates, description : Descriptions, amount : Amounts,
               merchant : Merchants]
CsvFiles == UNION {[1..n -> SourceRows] : n \in 1..IngestRows}

\* REGEXP_REPLACE(s, '\s+', ' ', 'g')
RECURSIVE CollapseSpaces(_)
CollapseSpaces(str) ==
  IF Len(str) <= 1 THEN str
  ELSE IF str[1] = " " /\ str[2] = " " THEN CollapseSpaces(Tail(str))
  ELSE <<str[1]>> \o CollapseSpaces(Tail(str))

\* TRIM(s)
RECURSIVE Trim(_)
Trim(str) ==
  IF str = <<>> THEN str
  ELSE IF str[1] = " " THEN Trim(Tail(str))
  ELSE IF str[Len(str)] = " " THEN Trim(SubSeq(str, 1, Len(str) - 1))
  ELSE str

Normalized(str) == Trim(CollapseSpaces(str))

\* CAST(Amount AS DOUBLE) of the numerals that occur
AmountValue(str) ==
  CASE str = <<"0">> -> 0
    [] str = <<"1">> -> 1
    [] str = <<"2">> -> 2
    [] str = <<"1", "2">> -> 12
    [] OTHER -> 0

\* md5 taken as collision-free: the digest stands for the string hashed
md5(str) == str

\* 'exp_' || md5(Date || Description || Amount || "Appears On ...") of a
\* credit card row; a bank statement row has no counterparty column
ExpenseId(row, csvType) ==
  <<"exp_">> \o md5(row.date \o row.description \o row.amount
                    \o (IF csvType = "credit_card" THEN row.merchant ELSE <<>>))

\* the row CREATE TABLE ... AS SELECT makes of a source row
IngestedRow(row, csvType) ==
  [id |-> ExpenseId(row, csvType), date |-> row.date,
   description |-> Normalized(row.description),
   amount |-> AmountValue(row.amount),
   merchant |-> Normalized(IF csvType = "credit_card" THEN row.merchant
                           ELSE row.description),
   parentExpenseId |-> 0, isSubExpense |-> FALSE, raw |-> row]

\* WHERE CAST(Amount AS DOUBLE) > 0
RECURSIVE PositiveRows(_)
PositiveRows(file) ==
  IF file = <<>> THEN <<>>
  ELSE IF AmountValue(file[1].amount) > 0
       THEN <<file[1]>> \o PositiveRows(Tail(file))
       ELSE PositiveRows(Tail(file))

ingestCSV(file, csvType) ==
  LET kept == PositiveRows(file)
  IN [i \in 1..Len(kept) |-> IngestedRow(kept[i], csvType)]

\* before processExpenses runs there is no table and no workflow_runs row
InitIngest ==
  /\ run = [status |-> "none"]
  /\ expenses = <<>>
  /\ categorizations = <<>>
  /\ review_queue = <<>>
  /\ categories = ROOT_CATEGORIES
  /\ events = EmptyBag
  /\ fnRuns = EmptyBag
  /\ now = 1
  /\ redeliveries = 0
  /\ humanOps = 0
  /\ statusWrites = 0
  /\ tracked = {}
  /\ retracked = 0
  /\ owed = <<>>
  /\ sent = <<>>

\* processExpenses, step ingest-csv: the file is ingested and the run created
IngestCSV ==
  \E file \in CsvFiles, csvType \in {"credit_card", "bank_statement"} :
    /\ run.status = "none"
    /\ expenses' = ingestCSV(file, csvType)
    /\ run' = createWorkflowRun(Len(expenses'))
    /\ fnRuns' = fnRuns (+)
         One(FnRun("processExpenses", 0, "trigger-categorizations", run', "", "",
                   "", {}))
    /\ UNCHANGED <<categorizations, review_queue, categories, events, now,
                   redeliveries, humanOps, statusWrites, tracked, retracked,
                   owed, sent>>

\* processExpenses, steps fetch-expenses and trigger-categorizations: one
\* expenses/categorize event per row, carrying the row's id
TriggerCategorizations ==
  \E fr \in BagToSet(fnRuns) :
    /\ fr.fn = "processExpenses"
    /\ events' = events (+)
         [ev \in {Event("expenses/categorize", expenses[i].id, "") :
                    i \in DOMAIN expenses} |->
            Cardinality({i \in DOMAIN expenses : expenses[i].id = ev.expenseId})]
    /\ fnRuns' = fnRuns (-) One(fr)
    /\ UNCHANGED <<run, expenses, categorizations, review_queue, categories, now,
                   redeliveries, humanOps, statusWrites, tracked, retracked,
                   owed, sent>>

NextIngest ==
  \/ IngestCSV
  \/ TriggerCategorizations

SpecIngest == InitIngest /\ [][NextIngest]_vars

\* ------------------------------------------- review request validation
ValItems == 1          \* expenses of the run (SpecValidate)
ValOps == 2            \* categorize requests the reviewer may issue

\* an expenses/categorize event naming MissingExpense has no row in the
\* run's table; no review item has the id MissingItem
MissingExpense == 0
MissingItem == 99

\* the JSON body of POST categorize; NoNewCategory and given = FALSE stand
\* for an absent createNewCategory and an absent splitTransaction
NoNewCategory == [name |-> "", parentId |-> ""]
Body(categoryId, newCategory, given, amounts) ==
  [categoryId |-> categoryId, createNewCategory |-> newCategory,
   splitGiven |-> given, splitTransaction |-> amounts]
RequestBodies ==
  {Body("", NoNewCategory, FALSE, <<>>), Body("1", NoNewCategory, FALSE, <<>>),
   Body("", [name |-> "Coffee", parentId |-> "1"], FALSE, <<>>),
   Body("", NoNewCategory, TRUE, <<10>>), Body("", NoNewCategory, TRUE, <<8>>),
   Body("", NoNewCategory, TRUE, <<>>), Body("1", NoNewCategory, TRUE, <<8>>)}

\* the status of the response of handleCategorizeReview, check by check
ResponseStatus(id, body) ==
  IF body.categoryId = "" /\ body.createNewCategory = NoNewCategory /\ ~body.splitGiven
  THEN 400
  ELSE IF id \notin DOMAIN review_queue THEN 404
  ELSE IF review_queue[id].expenseId \notin DOMAIN expenses THEN 404
  ELSE IF body.splitGiven
  THEN (IF validateSubExpenseSums(expenses[review_queue[id].expenseId].amount,
                                  body.splitTransaction)
        THEN 200 ELSE 400)
  ELSE 200

\* a 400 or 404 returned before the dispatch to a handler
RejectedRequest ==
  /\ humanOps > 0
  /\ humanOps' = humanOps - 1
  /\ UNCHANGED <<run, expenses, categorizations, review_queue, categories, events,
                 fnRuns, now, redeliveries, statusWrites, tracked, retracked>>
  /\ History

HandleCategorizeReviewOf(id, body) ==
  IF \/ body.categoryId = "" /\ body.createNewCategory = NoNewCategory /\ ~body.splitGiven
     \/ id \notin DOMAIN review_queue
     \/ review_queue[id].expenseId \notin DOMAIN expenses
  THEN RejectedRequest
  ELSE IF body.splitGiven
  THEN HandleTransactionSplitOf(id, body.splitTransaction)
  ELSE IF body.createNewCategory # NoNewCategory
  THEN HandleNewCategoryFindOf(id, body.createNewCategory)
  ELSE HandleNormalCategorizationOf(id, body.categoryId)

HandleCategorizeReview ==
  \E id \in DOMAIN review_queue \cup {MissingItem}, body \in RequestBodies :
    HandleCategorizeReviewOf(id, body)

\* An expenses/categorize event names an expense that is not in the table:
\* step fetch-expense throws on every attempt and onFailure queues the id
CategorizeMissing ==
  \E ev \in BagToSet(events) :
    /\ ev.name = "expenses/categorize"
    /\ ev.expenseId \notin DOMAIN expenses
    /\ events' = events (-) One(ev)
    /\ review_queue' = addToReviewQueue(review_queue,
           ReviewItem(ev.expenseId, "llm_failure", "", 0, ""))
    /\ fnRuns' = fnRuns (+)
         One(FnRun("categorizeExpense", ev.expenseId, "onFailure",
                   getWorkflowRun(run), "reviewQueueCount",
                   "expenses/expense.failed", "", {}))
    /\ UNCHANGED <<run, expenses, categorizations, categories, now, redeliveries,
                   humanOps, statusWrites, tracked, retracked>>
    /\ History

InitValidate ==
  /\ run = createWorkflowRun(ValItems)
  /\ expenses = [i \in 1..ValItems |-> TopLevelExpense(i)]
  /\ categorizations = <<>>
  /\ review_queue = <<>>
  /\ categories = ROOT_CATEGORIES
  /\ events = SetToBag({Event("expenses/categorize", i, "") : i \in 1..ValItems}
                       \cup {Event("expenses/categorize", MissingExpense, "")})
  /\ fnRuns = EmptyBag
  /\ now = 1
  /\ redeliveries = 0
  /\ humanOps = ValOps
  /\ statusWrites = 0
  /\ tracked = {}
  /\ retracked = 0
  /\ owed = [i \in 1..ValItems |-> 0]
  /\ sent = [i \in 1..ValItems |-> 0]

\* the classification and every kind of categorize request, one handler at
\* a time
NextValidate ==
  \/ Idle /\ Categorize(BatchResponses)
  \/ Idle /\ CategorizeMissing
  \/ StatsWrite
  \/ OnFailureWrite
  \/ Idle /\ HandleCategorizeReview
  \/ HandleNewCategorySave
  \/ SplitWrite
  \/ Idle /\ CompleteReviewed
  \/ CompleteWrite

SpecValidate == InitValidate /\ [][NextValidate]_vars

\* ------------------------------------------------------ the classifier call
ClassifyItems == 3     \* expenses of the run (SpecClassify)

\* strings are sequences of characters
Includes(str, pat) ==
  \E i \in 0..(Len(str) - Len(pat)) : SubSeq(str, i + 1, i + Len(pat)) = pat

\* String.toLowerCase, character by character, on the letters that occur
LowerChar(c) ==
  CASE c = "A" -> "a" [] c = "B" -> "b" [] c = "C" -> "c" [] c = "D" -> "d"
    [] c = "E" -> "e" [] c = "F" -> "f" [] c = "H" -> "h" [] c = "I" -> "i"
    [] c = "K" -> "k" [] c = "L" -> "l" [] c = "M" -> "m" [] c = "N" -> "n"
    [] c = "O" -> "o" [] c = "P" -> "p" [] c = "R" -> "r" [] c = "S" -> "s"
    [] c = "T" -> "t" [] c = "U" -> "u" [] c = "V" -> "v" [] c = "Y" -> "y"
    [] c = "Z" -> "z"
    [] OTHER -> c
toLowerCase(str) == [i \in 1..Len(str) |-> LowerChar(str[i])]

\* the characters of the merchant names that occur
MerchantText(merchant) ==
  CASE merchant = "AMAZON MKTPL" -> <<"A", "M", "A", "Z", "O", "N", " ", "M", "K", "T", "P", "L">>
    [] merchant = "Amazon.com" -> <<"A", "m", "a", "z", "o", "n", ".", "c", "o", "m">>
    [] merchant = "Blue Bottle" -> <<"B", "l", "u", "e", " ", "B", "o", "t", "t", "l", "e">>
    [] merchant = "VENMO PAYMENT" -> <<"V", "E", "N", "M", "O", " ", "P", "A", "Y", "M", "E", "N", "T">>

\* OBFUSCATED_MERCHANTS and isObfuscatedMerchant of llm.ts
OBFUSCATED_MERCHANTS ==
  {<<"a", "m", "a", "z", "o", "n">>,
   <<"v", "e", "n", "m", "o">>,
   <<"p", "a", "y", "p", "a", "l">>,
   <<"c", "a", "s", "h", " ", "a", "p", "p">>,
   <<"z", "e", "l", "l", "e">>,
   <<"a", "p", "p", "l", "e", " ", "p", "a", "y">>,
   <<"g", "o", "o", "g", "l", "e", " ", "p", "a", "y">>,
   <<"s", "q", "u", "a", "r", "e">>}
isObfuscatedMerchant(merchant) ==
  \E obf \in OBFUSCATED_MERCHANTS : Includes(toLowerCase(MerchantText(merchant)), obf)

\* what ollama.chat can do: throw an error of the HTTP client (its class is
\* what the error is, its text is error.message), or return a content that
\* is not JSON, or one that parses to `parsed`
ChatOutcome(kind, class, text, parsed) ==
  [kind |-> kind, class |-> class, text |-> text, parsed |-> parsed]
NoResponse == [action |-> "", categoryId |-> "", confidence |-> 0, newCategory |-> ""]
ChatErrors ==
  {ChatOutcome("error", "timeout", <<"H", "e", "a", "d", "e", "r", "s", " ", "T", "i", "m", "e", "o", "u", "t", " ", "E", "r", "r", "o", "r">>, NoResponse),
   ChatOutcome("error", "timeout", <<"T", "h", "e", " ", "o", "p", "e", "r", "a", "t", "i", "o", "n", " ", "t", "i", "m", "e", "d", " ", "o", "u", "t">>, NoResponse),
   ChatOutcome("error", "connectivity", <<"E", "C", "O", "N", "N", "A", "B", "O", "R", "T", "E", "D">>, NoResponse),
   ChatOutcome("error", "connectivity", <<"E", "C", "O", "N", "N", "R", "E", "F", "U", "S", "E", "D">>, NoResponse),
   ChatOutcome("error", "connectivity", <<"f", "e", "t", "c", "h", " ", "f", "a", "i", "l", "e", "d">>, NoResponse)}
ChatContents ==
  {ChatOutcome("text", "malformed", <<"S", "o", "r", "r", "y">>, NoResponse),
   ChatOutcome("json", "malformed", <<>>, NoResponse),
   ChatOutcome("json", "malformed", <<>>,
               [action |-> "create_subcategory", categoryId |-> "", confidence |-> 0,
                newCategory |-> ""])}
  \cup {ChatOutcome("json", "valid", <<>>, r) : r \in BatchResponses}
  \cup {ChatOutcome("json", "valid", <<>>,
                     [action |-> "needs_human_review", categoryId |-> "",
                      confidence |-> 0, newCategory |-> ""])}
ChatOutcomes == ChatErrors \cup ChatContents

\* the message of the error that reaches the catch block of categorizeExpense
\* in llm.ts: the client's, or the one thrown by the parse and the validation
InvalidJson == <<"I", "n", "v", "a", "l", "i", "d", " ", "J", "S", "O", "N", " ", "f", "r", "o", "m", " ", "L", "L", "M", ":", " ">>
InvalidFormat == <<"I", "n", "v", "a", "l", "i", "d", " ", "r", "e", "s", "p", "o", "n", "s", "e", " ", "f", "o", "r", "m", "a", "t", " ", "f", "r", "o", "m", " ", "L", "L", "M">>
ThrownMessage(o) ==
  IF o.kind = "error" THEN o.text
  ELSE IF o.kind = "text" THEN InvalidJson \o o.text
  ELSE IF o.parsed.action = "" THEN InvalidFormat
  ELSE IF o.parsed.action = "create_subcategory" /\ o.parsed.newCategory = ""
       THEN InvalidFormat
  ELSE <<>>

\* isTimeout of the catch block
isTimeout(errorMessage) ==
  \/ Includes(toLowerCase(errorMessage), <<"t", "i", "m", "e", "o", "u", "t">>)
  \/ Includes(toLowerCase(errorMessage), <<"t", "i", "m", "e", "d", " ", "o", "u", "t">>)
  \/ Includes(toLowerCase(errorMessage), <<"e", "c", "o", "n", "n", "a", "b", "o", "r", "t", "e", "d">>)

NeedsHumanReview ==
  [action |-> "needs_human_review", categoryId |-> "", confidence |-> 0,
   newCategory |-> ""]

\* categorizeExpense of llm.ts (callLLM): the error is rethrown, or a
\* response is returned
callLLM(o) ==
  IF ThrownMessage(o) = <<>> THEN [throws |-> FALSE, response |-> o.parsed]
  ELSE IF isTimeout(ThrownMessage(o)) THEN [throws |-> TRUE, response |-> NoResponse]
  ELSE [throws |-> FALSE, response |-> NeedsHumanReview]

Retries == 5   \* retries: 5

AttemptRun(e, made) ==
  FnRun("categorizeExpense", e, "llm-categorization", [attempts |-> made], "", "",
        "", {})

\* one attempt of step llm-categorization for expense e after `made` failed
\* attempts, and the outcome step if the call returns; `others` are the
\* other runs in flight
AttemptOf(e, made, o, others) ==
  LET res == callLLM(o)
      r == res.response
  IN /\ IF res.throws
        THEN IF made < Retries
             THEN /\ fnRuns' = others (+) One(AttemptRun(e, made + 1))
                  /\ UNCHANGED <<categorizations, review_queue>>
             ELSE /\ review_queue' = addToReviewQueue(review_queue,
                         ReviewItem(e, "llm_failure", "", 0, ""))
                  /\ fnRuns' = others (+)
                       One(FnRun("categorizeExpense", e, "onFailure",
                                 getWorkflowRun(run), "reviewQueueCount",
                                 "expenses/expense.failed", "", {}))
                  /\ UNCHANGED categorizations
        ELSE IF IsHighConfidence(r)
        THEN /\ categorizations' = saveCategorization(categorizations,
                   CategorizationFrom(e, r.categoryId, r.confidence, "auto"))
             /\ UNCHANGED review_queue
             /\ fnRuns' = others (+)
                  One(FnRun("categorizeExpense", e, "updateRunStats",
                            getWorkflowRun(run), "categorizedCount",
                            "expenses/expense.categorized", "", {}))
        ELSE /\ review_queue' = addToReviewQueue(review_queue,
                   ReviewItemFor(expenses[e], r, categories))
             /\ UNCHANGED categorizations
             /\ fnRuns' = others (+)
                  One(FnRun("categorizeExpense", e, "updateRunStats",
                            getWorkflowRun(run), "reviewQueueCount",
                            "expenses/expense.needs_review", "", {}))
     /\ UNCHANGED <<run, expenses, categories, now, redeliveries, humanOps,
                    statusWrites, tracked, retracked>>
     /\ History

\* an expenses/categorize event is delivered: the first attempt
ClassifyWith(ev, o) ==
  /\ ev.name = "expenses/categorize"
  /\ ev.expenseId \in DOMAIN expenses
  /\ events' = events (-) One(ev)
  /\ AttemptOf(ev.expenseId, 0, o, fnRuns)

\* the substrate runs the function again after a failed attempt
ClassifyAgainWith(fr, o) ==
  /\ fr.fn = "categorizeExpense" /\ fr.pc = "llm-categorization"
  /\ UNCHANGED events
  /\ AttemptOf(fr.expenseId, fr.snap.attempts, o, fnRuns (-) One(fr))

Classify ==
  \E ev \in BagToSet(events), o \in ChatOutcomes : ClassifyWith(ev, o)

ClassifyAgain ==
  \E fr \in BagToSet(fnRuns), o \in ChatOutcomes : ClassifyAgainWith(fr, o)

InitClassify == InitWith(ClassifyItems, 0, 0)

NextClassify ==
  \/ Classify
  \/ ClassifyAgain
  \/ StatsWrite
  \/ OnFailureWrite

SpecClassify == InitClassify /\ [][NextClassify]_vars

\* ------------------------------------- a retry and the reviewer at once
RaceItems == 1         \* top-level expenses of the run (SpecRace)
RaceOps == 2           \* requests the reviewer may issue (SpecRace)

\* the answers of the LLM to a retry: another category than the reviewer's
\* (callLLM returns whatever id the model names), with confidence 0.9 or 0.5
RaceResponses == {r \in [action : {"categorize"}, categoryId : {"0"},
                         confidence : {50, 90}, newCategory : {""}] : TRUE}

InitRace == InitWith(RaceItems, 0, RaceOps)

\* the expense is queued; the reviewer asks for a retry and posts a
\* category, and the functions run in any order
NextRace ==
  \/ Categorize(QueuedResponses)
  \/ StatsWrite
  \/ HandleRetryReview
  \/ RetryReview(RaceResponses)
  \/ RetryWrite
  \/ HandleNormalCategorization
  \/ CompleteReviewed
  \/ CompleteWrite

SpecRace == InitRace /\ [][NextRace]_vars

\* ------------------------------------------------ a re-ingested batch
ReingestItems == 2     \* top-level expenses of the batch (SpecReingest)

\* the review item an earlier batch left of expense e: queued with low
\* confidence, then resolved by the reviewer
EarlierItem(e) ==
  [ReviewItem(e, "low_confidence", "1", 50, "") EXCEPT !.status = "resolved",
                                                      !.runId = "run_0"]

\* the LLM answers, and the INSERT of addToReviewQueue goes through or throws
CategorizeOrThrow(responses) ==
  \E ev \in BagToSet(events), r \in responses, inserted \in BOOLEAN :
    CategorizeThrough(ev, FALSE, r, inserted)

\* processExpenses has ingested a file some of whose rows an earlier batch
\* had too: the expense ids are the same (md5 of the row), and review_queue
\* and categorizations, which are not per batch, hold what the earlier batch
\* left of them
InitReingest ==
  \E earlier \in SUBSET (1..ReingestItems) :
    /\ run = createWorkflowRun(ReingestItems)
    /\ expenses = [i \in 1..ReingestItems |-> TopLevelExpense(i)]
    /\ categorizations = [e \in earlier |-> StoredRow(Categorization(e, "1", 100))]
    /\ review_queue = [e \in earlier |-> EarlierItem(e)]
    /\ categories = ROOT_CATEGORIES
    /\ events = SetToBag({Event("expenses/categorize", i, "") : i \in 1..ReingestItems})
    /\ fnRuns = EmptyBag
    /\ now = 1
    /\ redeliveries = 0
    /\ humanOps = 0
    /\ statusWrites = 0
    /\ tracked = {}
    /\ retracked = 0
    /\ owed = [i \in 1..ReingestItems |-> 0]
    /\ sent = [i \in 1..ReingestItems |-> 0]

NextReingest ==
  \/ CategorizeOrThrow(BatchResponses)
  \/ CategorizeFails
  \/ StatsWrite
  \/ OnFailureWrite

SpecReingest == InitReingest /\ [][NextReingest]_vars

\* ---------------------------------------------- similar categorized expenses
PriorItems == 5        \* expenses of an earlier run, all categorized (SpecSimilar)
SimilarItems == 2      \* expenses of the run being classified

DefaultLimit == 5      \* limit: number = 5, and the 5 every caller passes
ScoreUnit == 120       \* the score 1.0; scores are in 120ths

\* the characters of the merchants and descriptions that occur
Text(str) ==
  CASE str = "ab" -> <<"a", "b">>
    [] str = "AB" -> <<"A", "B">>
    [] str = "a_" -> <<"a", "_">>
    [] str = "ac" -> <<"a", "c">>
    [] str = "cd" -> <<"c", "d">>
    [] str = "a" -> <<"a">>
    [] str = "b" -> <<"b">>

Max(a, b) == IF a >= b THEN a ELSE b
Min(a, b) == IF a <= b THEN a ELSE b

\* levenshtein(a, b) of DuckDB
levenshtein(a, b) ==
  LET D[i \in 0..Len(a), j \in 0..Len(b)] ==
        IF i = 0 THEN j
        ELSE IF j = 0 THEN i
        ELSE Min(Min(D[i - 1, j] + 1, D[i, j - 1] + 1),
                 D[i - 1, j - 1] + (IF a[i] = b[j] THEN 0 ELSE 1))
  IN D[Len(a), Len(b)]

\* str LIKE pat: in the pattern % stands for any characters and _ for any
\* one character
Like(str, pat) ==
  LET M[i \in 0..Len(str), j \in 0..Len(pat)] ==
        IF j = Len(pat) THEN i = Len(str)
        ELSE IF pat[j + 1] = "%"
             THEN M[i, j + 1] \/ (i < Len(str) /\ M[i + 1, j])
             ELSE /\ i < Len(str)
                  /\ pat[j + 1] = "_" \/ pat[j + 1] = str[i + 1]
                  /\ M[i + 1, j + 1]
  IN M[0, 0]

\* LOWER(col) LIKE '%' || LOWER(?) || '%'
LikeContains(col, param) ==
  Like(toLowerCase(col), <<"%">> \o toLowerCase(param) \o <<"%">>)

\* the CASE expression of one column: 1.0, 0.8, or
\* GREATEST(0, 1.0 - levenshtein / GREATEST(LENGTH, LENGTH, 1.0))
similarity(col, param) ==
  IF toLowerCase(col) = toLowerCase(param) THEN ScoreUnit
  ELSE IF LikeContains(col, param) THEN (8 * ScoreUnit) \div 10
  ELSE IF LikeContains(param, col) THEN (8 * ScoreUnit) \div 10
  ELSE Max(0, ScoreUnit - (ScoreUnit * levenshtein(toLowerCase(col), toLowerCase(param)))
                            \div Max(Max(Len(col), Len(param)), 1))

\* similarityScore, in 1200ths: merchant * 0.3 + description * 0.7 (the
\* merchant and the description of a categorizations row are those of its
\* expense, copied when it was saved)
similarityScore(expense, merchant, description) ==
  3 * similarity(Text(expense.merchant), Text(merchant))
  + 7 * similarity(Text(expense.description), Text(description))

\* the WHERE clause: some similarity in one of the columns
SomeSimilarity(expense, merchant, description) ==
  \/ LikeContains(Text(expense.merchant), Text(merchant))
  \/ LikeContains(Text(merchant), Text(expense.merchant))
  \/ LikeContains(Text(expense.description), Text(description))
  \/ LikeContains(Text(description), Text(expense.description))
  \/ levenshtein(toLowerCase(Text(expense.merchant)), toLowerCase(Text(merchant))) <= 5
  \/ levenshtein(toLowerCase(Text(expense.description)),
                 toLowerCase(Text(description))) <= 10

\* ORDER BY similarityScore DESC LIMIT ?: the orders the query can return
\* its rows in (rows of equal score come in any order)
RECURSIVE TopRows(_, _, _)
TopRows(ids, score, limit) ==
  IF limit = 0 \/ ids = {} THEN {<<>>}
  ELSE LET best == {e \in ids : \A x \in ids : score[x] <= score[e]}
       IN UNION {{<<e>> \o rest : rest \in TopRows(ids \ {e}, score, limit - 1)} :
                   e \in best}

\* getSimilarCategorizedExpenses: the rows of categorizations, joined with
\* their category, that have some similarity, best first
getSimilarCategorizedExpenses(cz, cats, exps, merchant, description, limit) ==
  LET ids == {e \in DOMAIN cz :
                /\ \E cat \in cats : cat.id = cz[e].categoryId
                /\ SomeSimilarity(exps[e], merchant, description)}
      score == [e \in ids |-> similarityScore(exps[e], merchant, description)]
  IN {[i \in 1..Len(top) |->
         [merchant |-> exps[top[i]].merchant,
          description |-> exps[top[i]].description,
          categoryId |-> cz[top[i]].categoryId,
          similarityScore |-> score[top[i]]]] : top \in TopRows(ids, score, limit)}

\* an expenses/categorize event is delivered: fetch-expense, fetch-categories
\* and fetch-similar-expenses run, the function is about to call the LLM
FetchSimilarWith(ev, similar) ==
  /\ ev.name = "expenses/categorize"
  /\ ev.expenseId \in DOMAIN expenses
  /\ similar \in getSimilarCategorizedExpenses(
                   categorizations, categories, expenses,
                   expenses[ev.expenseId].merchant,
                   expenses[ev.expenseId].description, DefaultLimit)
  /\ events' = events (-) One(ev)
  /\ fnRuns' = fnRuns (+)
       One(FnRun("categorizeExpense", ev.expenseId, "llm-categorization",
                 [attempts |-> 0, similarExpenses |-> similar], "", "", "", {}))
  /\ UNCHANGED <<run, expenses, categorizations, review_queue, categories, now,
                 redeliveries, humanOps, statusWrites, tracked, retracked>>
  /\ History

FetchSimilar ==
  \E ev \in BagToSet(events) :
    /\ ev.name = "expenses/categorize"
    /\ ev.expenseId \in DOMAIN expenses
    /\ \E similar \in getSimilarCategorizedExpenses(
                        categorizations, categories, expenses,
                        expenses[ev.expenseId].merchant,
                        expenses[ev.expenseId].description, DefaultLimit) :
         FetchSimilarWith(ev, similar)

\* the LLM answers with a valid response and the outcome step runs
AnswerSimilar ==
  \E fr \in BagToSet(fnRuns), o \in {c \in ChatContents : c.class = "valid"} :
    ClassifyAgainWith(fr, o)

\* the rows of the earlier run and the merchants and descriptions of the
\* rows of this one
PriorMerchants == <<"ab", "AB", "ac", "b", "cd">>
PriorDescriptions == <<"cd", "ab", "a", "ac", "b">>
PriorExpense(i) ==
  [id |-> i, runId |-> "run_0", date |-> i, parentExpenseId |-> 0,
   isSubExpense |-> FALSE, amount |-> 10,
   merchant |-> PriorMerchants[((i - 1) % Len(PriorMerchants)) + 1],
   description |-> PriorDescriptions[((i - 1) % Len(PriorDescriptions)) + 1]]
NewRows == [merchant : {"a_", "ab"}, description : {"a", "cd"}]
NewExpense(i, row) ==
  [id |-> i, runId |-> "run_1", date |-> i, parentExpenseId |-> 0,
   isSubExpense |-> FALSE, amount |-> 10,
   merchant |-> row.merchant, description |-> row.description]

\* a second run: the expenses of the first are categorized, those of the
\* second are ingested and their expenses/categorize events sent
InitSimilar ==
  /\ run = createWorkflowRun(SimilarItems)
  /\ \E rows \in [1..SimilarItems -> NewRows] :
       expenses = [i \in 1..(PriorItems + SimilarItems) |->
                     IF i <= PriorItems THEN PriorExpense(i)
                     ELSE NewExpense(i, rows[i - PriorItems])]
  /\ categorizations = [i \in 1..PriorItems |-> StoredRow(Categorization(i, "1", 90))]
  /\ review_queue = <<>>
  /\ categories = ROOT_CATEGORIES
  /\ events = SetToBag({Event("expenses/categorize", PriorItems + i, "") :
                          i \in 1..SimilarItems})
  /\ fnRuns = EmptyBag
  /\ now = 1
  /\ redeliveries = 0
  /\ humanOps = 0
  /\ statusWrites = 0
  /\ tracked = {}
  /\ retracked = 0
  /\ owed = [i \in 1..(PriorItems + SimilarItems) |-> 0]
  /\ sent = [i \in 1..(PriorItems + SimilarItems) |-> 0]

NextSimilar ==
  \/ Idle /\ FetchSimilar
  \/ AnswerSimilar
  \/ StatsWrite

SpecSimilar == InitSimilar /\ [][NextSimilar]_vars

\* ------------------------------------------------------ the retry cascade
CascadeItems == 2      \* top-level expenses of the run (SpecCascade)
CascadeEvents == 1     \* category/created events delivered to the function

\* getReviewQueue: SELECT ... WHERE status = 'pending'
getReviewQueue(table) == {e \in DOMAIN table : table[e].status = "pending"}

\* fetch-pending-reviews: the filter on the reason
CascadeReasons == {"new_category_suggestion", "duplicate_category_suggested"}
pendingItems(table) ==
  {e \in getReviewQueue(table) : table[e].reason \in CascadeReasons}

\* the run of retryPendingAfterCategoryCreation between two of its steps;
\* ids are the items of pendingItems it has not retried yet
CascadeRun(ids) ==
  FnRun("retryPendingAfterCategoryCreation", 0, "retry-item", <<>>, "", "", "", ids)

\* a run whose loop has ended returns
CascadeRest(ids) == IF ids = {} THEN EmptyBag ELSE One(CascadeRun(ids))

\* category/created is delivered: fetch-pending-reviews; with no item the
\* function returns, else it goes on to the loop
CascadeFetch ==
  \E ev \in BagToSet(events) :
    /\ ev.name = "category/created"
    /\ events' = events (-) One(ev)
    /\ fnRuns' = fnRuns (+) CascadeRest(pendingItems(review_queue))
    /\ UNCHANGED <<run, expenses, categorizations, review_queue, categories, now,
                   redeliveries, humanOps, statusWrites, tracked, retracked>>
    /\ History

\* step retry-item of item e, the LLM answering r: a high confidence answer
\* is saved and the item resolved up to the read of the run; the other
\* branch only logs.  (The loop follows createdAt, which the tables of the
\* model do not keep: any of the remaining items may be the next.)
CascadeItemOf(fr, e, r) ==
  /\ fr \in BagToSet(fnRuns)
  /\ fr.fn = "retryPendingAfterCategoryCreation" /\ fr.pc = "retry-item"
  /\ e \in fr.ids
  /\ IF e \in DOMAIN expenses /\ IsHighConfidence(r)
     THEN /\ categorizations' = saveCategorization(categorizations,
                CategorizationFrom(e, r.categoryId, r.confidence, "retry_auto"))
          /\ review_queue' = resolveReviewQueueItem(review_queue, e)
          /\ fnRuns' = (fnRuns (-) One(fr))
               (+) One(FnRun("retryPendingAfterCategoryCreation", e,
                             "updateWorkflowRun", getWorkflowRun(run), "",
                             "review/item.resolved", r.categoryId, fr.ids \ {e}))
     ELSE /\ fnRuns' = (fnRuns (-) One(fr)) (+) CascadeRest(fr.ids \ {e})
          /\ UNCHANGED <<categorizations, review_queue>>
  /\ UNCHANGED <<run, expenses, categories, events, now, redeliveries, humanOps,
                 statusWrites, tracked, retracked>>
  /\ History

CascadeItem(responses) ==
  \E fr \in BagToSet(fnRuns), e \in DOMAIN review_queue, r \in responses :
    CascadeItemOf(fr, e, r)

\* callLLM throws inside retry-item: the catch logs and the loop goes on
CascadeItemFails ==
  \E fr \in BagToSet(fnRuns) :
    /\ fr.fn = "retryPendingAfterCategoryCreation" /\ fr.pc = "retry-item"
    /\ \E e \in fr.ids :
         fnRuns' = (fnRuns (-) One(fr)) (+) CascadeRest(fr.ids \ {e})
    /\ UNCHANGED <<run, expenses, categorizations, review_queue, categories, events,
                   now, redeliveries, humanOps, statusWrites, tracked, retracked>>
    /\ History

\* the rest of the high confidence branch: both counters are written and
\* review/item.resolved is sent
CascadeWrite ==
  \E fr \in BagToSet(fnRuns) :
    /\ fr.fn = "retryPendingAfterCategoryCreation" /\ fr.pc = "updateWorkflowRun"
    /\ run' = updateWorkflowRun(run, ResolvedUpdate(fr.snap))
    /\ events' = events (+) One([Event(fr.signal, fr.expenseId, fr.categoryId)
                                   EXCEPT !.autoResolved = TRUE])
    /\ fnRuns' = (fnRuns (-) One(fr)) (+) CascadeRest(fr.ids)
    /\ UNCHANGED <<expenses, categorizations, review_queue, categories, now,
                   redeliveries, humanOps, statusWrites, tracked, retracked>>
    /\ History

\* a classified batch, to which category/created events are delivered from
\* outside (no statement of the source sends one); the functions run one at
\* a time
InitCascade ==
  /\ run = createWorkflowRun(CascadeItems)
  /\ expenses = [i \in 1..CascadeItems |-> TopLevelExpense(i)]
  /\ categorizations = <<>>
  /\ review_queue = <<>>
  /\ categories = ROOT_CATEGORIES
  /\ events = SetToBag({Event("expenses/categorize", i, "") : i \in 1..CascadeItems})
                (+) [ev \in {Event("category/created", 0, "cat_a")} |-> CascadeEvents]
  /\ fnRuns = EmptyBag
  /\ now = 1
  /\ redeliveries = 0
  /\ humanOps = 0
  /\ statusWrites = 0
  /\ tracked = {}
  /\ retracked = 0
  /\ owed = [i \in 1..CascadeItems |-> 0]
  /\ sent = [i \in 1..CascadeItems |-> 0]

NextCascade ==
  \/ Idle /\ Categorize(LlmResponses)
  \/ StatsWrite
  \/ Idle /\ CascadeFetch
  \/ CascadeItem(LlmResponses)
  \/ CascadeItemFails
  \/ CascadeWrite
  \/ Idle /\ CompleteReviewed
  \/ CompleteWrite

SpecCascade == InitCascade /\ [][NextCascade]_vars

\* ------------------------------------------- the life of a review item
LifeItems == 1         \* top-level expenses of the run (SpecLife)
LifeOps == 1           \* requests the reviewer may issue (SpecLife)
LifeEvents == 1        \* category/created events delivered to the cascade

\* the answers of the LLM: a category with confidence 0.9 or 0.5, or a
\* proposal of a new category
LifeResponses ==
  {r \in LlmResponses : r.action = "categorize" /\ r.confidence # 0}
  \cup {r \in LlmResponses : r.newCategory = "Coffee"}

\* a batch, a reviewer, and category/created events for the cascade
InitLife ==
  /\ run = createWorkflowRun(LifeItems)
  /\ expenses = [i \in 1..LifeItems |-> TopLevelExpense(i)]
  /\ categorizations = <<>>
  /\ review_queue = <<>>
  /\ categories = ROOT_CATEGORIES
  /\ events = SetToBag({Event("expenses/categorize", i, "") : i \in 1..LifeItems})
                (+) [ev \in {Event("category/created", 0, "cat_a")} |-> LifeEvents]
  /\ fnRuns = EmptyBag
  /\ now = 1
  /\ redeliveries = 0
  /\ humanOps = LifeOps
  /\ statusWrites = 0
  /\ tracked = {}
  /\ retracked = 0
  /\ owed = [i \in 1..LifeItems |-> 0]
  /\ sent = [i \in 1..LifeItems |-> 0]

\* queueing, retry, cascade and resolution, one handler at a time
NextLife ==
  \/ Idle /\ Categorize(LifeResponses)
  \/ StatsWrite
  \/ Idle /\ HandleNormalCategorization
  \/ Idle /\ HandleTransactionSplit(WholeSplits)
  \/ SplitWrite
  \/ Idle /\ HandleRetryReview
  \/ Idle /\ RetryReview(LifeResponses)
  \/ Idle /\ RetryReviewFails
  \/ RetryWrite
  \/ Idle /\ CascadeFetch
  \/ CascadeItem(LifeResponses)
  \/ CascadeItemFails
  \/ CascadeWrite
  \/ Idle /\ CompleteReviewed
  \/ CompleteWrite

SpecLife == InitLife /\ [][NextLife]_vars

\* nothing of the review flow is in flight (tracking events are not consumed
\* in Spec)
QuiescentReview ==
  /\ fnRuns = EmptyBag
  /\ \A ev \in BagToSet(events) : ev.name \notin ConsumedEvents \ TrackingEvents

\* ---------------------------------------------------------- properties
Done == "categorization_done"

\* C1: the transition processing -> categorization_done is performed exactly
\* once per batch: never by two trackers, and once when every item has an
\* outcome and every signal has been handled
C1_TransitionExactlyOnce ==
  /\ statusWrites <= 1
  /\ (Quiescent /\ AllOutcome) => statusWrites = 1

\* C3: once every item has an outcome and every signal has been delivered
\* and handled, the batch is categorization_done (at quiescence nothing is
\* left to run, so fairness has nothing more to schedule)
C3_EventuallyDone ==
  (Quiescent /\ AllOutcome) => run.status = Done

\* C4: counter updates are atomic increments: when all outcome steps of the
\* batch have run, each counter is as many higher as updates were made to it
C4_NoLostIncrement ==
  Quiescent =>
    /\ run.categorizedCount = Cardinality(DOMAIN categorizations)
    /\ run.reviewQueueCount = Cardinality(DOMAIN review_queue)

C7_FinalReadout ==
  LET r == getWorkflowRun(run)
      a == Cardinality({e \in DOMAIN expenses :
              OutcomeOf(expenses, categorizations, review_queue, e) = "Categorized"})
      b == Cardinality({e \in DOMAIN expenses :
              OutcomeOf(expenses, categorizations, review_queue, e) = "Queued"})
      c == Cardinality({e \in DOMAIN expenses :
              OutcomeOf(expenses, categorizations, review_queue, e) = "Failed"})
  IN (Quiescent /\ AllOutcome) =>
       /\ JsProp(r, "categorizedCount") = Num(a)
       /\ JsProp(r, "reviewQueueCount") = Num(b)
       /\ JsProp(r, "failedCount") = Num(c)
       /\ r.status = Done

\* C8: a classify request delivered twice has the effect of one delivery:
\* the item is counted once, and it has a Resolution or a ReviewItem, not both
C8_RepeatedDeliverySameEffect ==
  Quiescent =>
    /\ run.categorizedCount + run.reviewQueueCount <= Cardinality(DOMAIN expenses)
    /\ \A e \in DOMAIN expenses :
         ~(e \in DOMAIN categorizations /\ e \in DOMAIN review_queue)

C10_ExactlyOneFinalState ==
  QuiescentReview =>
    \A e \in DOMAIN expenses :
      LET pending == HasPending(review_queue, e)
          failed == pending /\ review_queue[e].reason = "llm_failure"
          states == {s \in {"Categorized", "Queued", "Failed", "Split"} :
                       \/ s = "Categorized" /\ HasResolution(categorizations, e)
                       \/ s = "Queued" /\ pending /\ ~failed
                       \/ s = "Failed" /\ failed
                       \/ s = "Split" /\ HasChildren(expenses, e)}
      IN Cardinality(states) = 1

\* C11: whatever categories the reviews and the categories endpoint have
\* created, no two categories have the same case-insensitive name under the
\* same parentId
C11_OneNodePerNameAndParent ==
  \A c1, c2 \in categories :
    (Lower(c1.name) = Lower(c2.name) /\ c1.parentId = c2.parentId) => c1.id = c2.id

\* C12: when the resolutions that proposed a category have finished, the
\* expenses resolved to categories of the same name and parent reference
\* one and the same category, and that category exists once
C12_ConcurrentProposalsOneNode ==
  QuiescentReview =>
    \A e1, e2 \in DOMAIN categorizations :
      \A c1, c2 \in categories :
        (/\ c1.id = categorizations[e1].categoryId
         /\ c2.id = categorizations[e2].categoryId
         /\ Lower(c1.name) = Lower(c2.name) /\ c1.parentId = c2.parentId
         /\ c1.parentId # "")
        => c1.id = c2.id

C14_SplitParentHasNoResolution ==
  QuiescentReview =>
    \A e \in DOMAIN expenses :
      HasChildren(expenses, e) => ~HasResolution(categorizations, e)

\* C15: splits are one level deep: the parent of a sub-expense is never
\* itself a sub-expense
C15_SplitsOneLevelDeep ==
  \A c \in DOMAIN expenses :
    expenses[c].isSubExpense => ~expenses[expenses[c].parentExpenseId].isSubExpense

C17_IdFromNormalizedFields ==
  \A i, j \in DOMAIN expenses :
    LET fields(x) == <<x.date, x.description, x.amount, x.merchant>>
    IN (fields(expenses[i]) = fields(expenses[j])) <=> (expenses[i].id = expenses[j].id)

\* C18: a write of a categorization for an expense that has one replaces it
\* in place: after completeReviewedExpense has saved, the expense's row is
\* the row just written, the table has a row for it and for the expenses
\* that had one, and the rows of all other expenses are as they were
C18_ResolutionReplacedInPlace ==
  [][\A ev \in BagToSet(events) :
       (/\ CompleteReviewedOf(ev, FALSE)
        /\ ev.resolutionType # "split" /\ ev.categoryId # "") =>
         /\ DOMAIN categorizations' = DOMAIN categorizations \cup {ev.expenseId}
         /\ categorizations'[ev.expenseId] =
              Categorization(ev.expenseId, ev.categoryId, 100)
         /\ \A x \in DOMAIN categorizations \ {ev.expenseId} :
              categorizations'[x] = categorizations[x]]_vars

\* C18 witness: more saves were counted than categorizations exist, so a
\* row was written over (a retry saved the LLM's answer, then
\* completeReviewedExpense saved the same expense again with confidence 1.0)
C18_Witness ==
  /\ run.categorizedCount > Cardinality(DOMAIN categorizations)
  /\ \E e \in DOMAIN categorizations : categorizations[e].confidence = 100

\* C19: queuing an expense that already has a review item creates no second
\* item: under redelivery and failure of expenses/categorize, every expense
\* that has a review item keeps that one item, exactly as it was queued
C19_RequeueKeepsTheOneItem ==
  [][\A e \in DOMAIN review_queue :
       /\ e \in DOMAIN review_queue'
       /\ review_queue'[e] = review_queue[e]]_vars

\* C19 witness: the failure handler has queued an expense (its run is at the
\* counter update) whose review item is the earlier low-confidence one
C19_Witness ==
  \E fr \in BagToSet(fnRuns) :
    /\ fr.fn = "categorizeExpense" /\ fr.pc = "onFailure"
    /\ fr.expenseId \in DOMAIN review_queue
    /\ review_queue[fr.expenseId].reason = "low_confidence"

\* C20: a categorize request that fails validation (no categoryId, new
\* category or split given; unknown review item or expense; split amounts
\* that do not sum to the parent) is answered 400 or 404 and changes nothing:
\* no category, categorization or sub-expense is created, the review queue
\* and the run's counters are as before, no event is sent and no handler is
\* left running
C20_InvalidRequestMutatesNothing ==
  [][\A id \in DOMAIN review_queue \cup {MissingItem}, body \in RequestBodies :
       LET noField == body.categoryId = "" /\ body.createNewCategory = NoNewCategory
                      /\ ~body.splitGiven
           unknown == id \notin DOMAIN review_queue
                      \/ review_queue[id].expenseId \notin DOMAIN expenses
           mismatch == ~unknown /\ body.splitGiven
                       /\ SumOf(body.splitTransaction) - expenses[id].amount
                            \notin (0 - Tolerance)..Tolerance
       IN (HandleCategorizeReviewOf(id, body) /\ (noField \/ unknown \/ mismatch)) =>
            /\ ResponseStatus(id, body) \in {400, 404}
            /\ categories' = categories
            /\ categorizations' = categorizations
            /\ expenses' = expenses
            /\ review_queue' = review_queue
            /\ run' = run
            /\ events' = events
            /\ fnRuns' = fnRuns]_vars

\* C20 witness: the reviewer has made a request and nothing came of it: the
\* items of a known and of an unknown expense are queued as they were, and
\* there is no categorization, sub-expense, new category, event of the
\* review flow or handler in flight
C20_Witness ==
  /\ humanOps < ValOps
  /\ fnRuns = EmptyBag
  /\ MissingExpense \in DOMAIN review_queue
  /\ \E e \in DOMAIN review_queue : e \in DOMAIN expenses
  /\ \A e \in DOMAIN review_queue : review_queue[e].status = "pending"
  /\ categorizations = <<>>
  /\ categories = ROOT_CATEGORIES
  /\ \A e \in DOMAIN expenses : ~expenses[e].isSubExpense
  /\ \A ev \in BagToSet(events) : ev.name # "review/item.resolved"

\* C21: once the classifier has failed on every attempt for an expense and
\* onFailure has finished, the expense has a pending review item with reason
\* llm_failure and the run's failedCount, as getWorkflowRun returns it, has
\* been incremented: it is a number and at least 1
C21_ExhaustionCountsOneFailure ==
  \A e \in DOMAIN review_queue :
    (/\ review_queue[e].reason = "llm_failure"
     /\ \A fr \in BagToSet(fnRuns) : ~(fr.pc = "onFailure" /\ fr.expenseId = e)) =>
      /\ review_queue[e].status = "pending"
      /\ JsGe(JsProp(getWorkflowRun(run), "failedCount"), Num(1))

\* C22: the errors of a classifier call are partitioned: after an attempt
\* whose response is malformed the expense is queued for review and no
\* further attempt is pending; after an attempt that ends in a timeout or
\* connectivity error nothing is written for the expense and the attempt is
\* tried again (or, the retries used up, handed to onFailure)
C22_ErrorsPartitioned ==
  [][\A ev \in BagToSet(events), o \in ChatOutcomes :
       ClassifyWith(ev, o) =>
         LET e == ev.expenseId
             again == \E fr \in BagToSet(fnRuns') :
                        fr.expenseId = e /\ fr.pc \in {"llm-categorization", "onFailure"}
         IN /\ o.class = "malformed" => HasPending(review_queue', e) /\ ~again
            /\ o.class \in {"timeout", "connectivity"} =>
                 review_queue' = review_queue /\ again]_vars

\* C23: a categorize answer with a confidence below 0.70, 0 included, queues
\* the expense with reason low_confidence, and the review item carries the
\* suggested categoryId and confidence
C23_BelowThresholdIsLowConfidence ==
  [][\A ev \in BagToSet(events), r \in LlmResponses :
       (/\ r.action = "categorize" /\ r.categoryId # ""
        /\ r.confidence < CONFIDENCE_THRESHOLD
        /\ ev.expenseId \notin DOMAIN review_queue
        /\ CategorizeWith(ev, FALSE, r)) =>
         /\ HasPending(review_queue', ev.expenseId)
         /\ review_queue'[ev.expenseId].reason = "low_confidence"
         /\ review_queue'[ev.expenseId].categoryId = r.categoryId
         /\ review_queue'[ev.expenseId].confidence = r.confidence]_vars

\* C24: an expense whose merchant contains an entry of the list of vague
\* merchants goes straight to the review queue with reason ambiguous, and
\* the classifier is not called for it: whatever the classifier would
\* answer, the run of categorizeExpense writes no categorization, leaves a
\* pending item with reason ambiguous and needs no further attempt
C24_VagueMerchantSkipsClassifier ==
  [][\A ev \in BagToSet(events), o \in ChatOutcomes :
       (/\ ClassifyWith(ev, o)
        /\ isObfuscatedMerchant(expenses[ev.expenseId].merchant)) =>
         /\ categorizations' = categorizations
         /\ HasPending(review_queue', ev.expenseId)
         /\ review_queue'[ev.expenseId].reason = "ambiguous"
         /\ \A fr \in BagToSet(fnRuns') :
              fr.expenseId = ev.expenseId => fr.pc = "updateRunStats"]_vars

C27_HumanResolutionIsManual ==
  [][/\ \A e \in DOMAIN review_queue, categoryId \in ReviewCategoryIds :
          HandleNormalCategorizationOf(e, categoryId) =>
            /\ HasResolution(categorizations', e)
            /\ review_queue'[e].status = "resolved"
            /\ SourceOf(categorizations'[e]) = "manual"
     /\ \A ev \in BagToSet(events) :
          (CompleteReviewedOf(ev, FALSE) /\ ev.categoryId # "") =>
            SourceOf(categorizations'[ev.expenseId]) = "manual"]_vars

\* C28: every creation of a category, by a review resolution or by the
\* categories endpoint, triggers the retry cascade: the step that inserts
\* the category sends a category/created event, which starts
\* retryPendingAfterCategoryCreation
C28_CreationTriggersCascade ==
  [][categories' # categories =>
       \E ev \in BagToSet(events') :
         /\ ev.name = "category/created"
         /\ CopiesIn(ev, events') > CopiesIn(ev, events)]_vars

\* C29: when an automatic re-run (the reviewer's retry, or the cascade)
\* yields categorize with a confidence of at least 0.70, the processing of
\* the review/item.resolved event it sends leaves the expense with a
\* categorization of source retry_auto and the classifier's confidence, the
\* review item resolved, and the tracking event on its way
C29_RetryAutoResolutionKept ==
  [][\A ev \in BagToSet(events) :
       (/\ CompleteReviewedOf(ev, FALSE)
        /\ ev.alreadySaved \/ ev.autoResolved
        /\ HasResolution(categorizations, ev.expenseId))
       => /\ SourceOf(categorizations'[ev.expenseId]) = "retry_auto"
          /\ categorizations'[ev.expenseId].confidence
               = categorizations[ev.expenseId].confidence
          /\ review_queue'[ev.expenseId].status = "resolved"
          /\ \E fr \in BagToSet(fnRuns') :
               /\ fr.expenseId = ev.expenseId
               /\ fr.signal = "expenses/expense.categorized"]_vars

\* C30: when the cascade's re-run of a pending review item is still
\* inconclusive, the item's stored suggestion is replaced by the new one,
\* its retryCount grows by exactly one, the item stays pending and the
\* counters of the run are unchanged
C30_InconclusiveCascadeUpdatesItem ==
  [][\A fr \in BagToSet(fnRuns), e \in DOMAIN review_queue, r \in LlmResponses :
       (/\ CascadeItemOf(fr, e, r)
        /\ ~IsHighConfidence(r)
        /\ HasPending(review_queue, e))
       => /\ review_queue'[e].categoryId = (IF IsCategorize(r) THEN r.categoryId ELSE "")
          /\ review_queue'[e].confidence = (IF IsCategorize(r) THEN r.confidence ELSE 0)
          /\ review_queue'[e].newCategory = (IF IsNewCategory(r) THEN r.newCategory ELSE "")
          /\ review_queue'[e].retryCount = review_queue[e].retryCount + 1
          /\ review_queue'[e].status = "pending"
          /\ run' = run]_vars

\* C31: on an accepted split one sub-expense is created per requested split,
\* each with parentExpenseId the parent's id, isSubExpense true, the
\* parent's date and run, the split's amount and the parent's merchant
\* unless the split names its own; when the handler then sends its events,
\* exactly one expenses/categorize is sent for each sub-expense and none for
\* any other expense, the parent included
C31_ChildrenOfAcceptedSplit ==
  [][/\ \A e \in DOMAIN review_queue, splits \in SplitRequests :
          (/\ HandleTransactionSplitWith(e, splits)
           /\ SumOf(SplitAmounts(splits)) - expenses[e].amount
                \in (0 - Tolerance)..Tolerance)
          => LET kids == DOMAIN expenses' \ DOMAIN expenses
             IN /\ \E f \in [1..Len(splits) -> kids] :
                     /\ \A k \in kids : Cardinality({i \in 1..Len(splits) : f[i] = k}) = 1
                     /\ \A i \in 1..Len(splits) :
                          /\ expenses'[f[i]].parentExpenseId = e
                          /\ expenses'[f[i]].isSubExpense
                          /\ expenses'[f[i]].date = expenses[e].date
                          /\ expenses'[f[i]].runId = expenses[e].runId
                          /\ expenses'[f[i]].amount = splits[i].amount
                          /\ expenses'[f[i]].merchant =
                               (IF splits[i].merchant = "" THEN expenses[e].merchant
                                ELSE cleanCsvString(splits[i].merchant))
                /\ \A x \in DOMAIN expenses : expenses'[x] = expenses[x]
                /\ \E fr \in BagToSet(fnRuns') :
                     /\ fr.fn = "handleTransactionSplit"
                     /\ fr.expenseId = e
                     /\ fr.ids = kids
     /\ \A fr \in BagToSet(fnRuns) :
          SplitWriteOf(fr)
          => \A x \in DOMAIN expenses :
               CopiesIn(Event("expenses/categorize", x, ""), events')
                 - CopiesIn(Event("expenses/categorize", x, ""), events)
               = (IF x \in fr.ids THEN 1 ELSE 0)]_vars

\* C31 witness: a split into two halves has been carried out: the first
\* sub-expense has the parent's merchant, the second its own, and one
\* expenses/categorize is in flight for each
C31_Witness ==
  \E p, a, b \in DOMAIN expenses :
    /\ a # b
    /\ expenses[a].parentExpenseId = p /\ expenses[b].parentExpenseId = p
    /\ expenses[a].isSubExpense /\ expenses[b].isSubExpense
    /\ expenses[a].amount = 5 /\ expenses[b].amount = 5
    /\ expenses[a].merchant = expenses[p].merchant
    /\ expenses[b].merchant = "Corner Cafe"
    /\ expenses[a].date = expenses[p].date /\ expenses[b].date = expenses[p].date
    /\ CopiesIn(Event("expenses/categorize", a, ""), events) = 1
    /\ CopiesIn(Event("expenses/categorize", b, ""), events) = 1
    /\ CopiesIn(Event("expenses/categorize", p, ""), events) = 0
    /\ fnRuns = EmptyBag

\* C32: when the grand total of a receipt differs from the sum of its item
\* prices by more than 0.01, the whole difference is added to the most
\* expensive item (the first of them on ties), every other item keeps its
\* price, and the splits then sum to the grand total; an accepted receipt
\* creates sub-expenses of exactly these amounts
C32_ResidualOnMostExpensive ==
  [][\A receipt \in Receipts :
       (/\ humanOps' # humanOps
        /\ \E e \in DOMAIN review_queue : HandleAmazonSplitOf(e, receipt)) =>
         LET n == Len(receipt.items)
             price == [i \in 1..n |-> ParsePrice(receipt.items[i].unitPrice)]
             out == parseAmazonItems(receipt.items, receipt.summary)
             kids == DOMAIN expenses' \ DOMAIN expenses
         IN /\ \A g \in GrandTotals :
                 (/\ receipt.summary # <<>>
                  /\ receipt.summary[2].content = g
                  /\ Abs(ParsePrice(g) - SumOf(price)) > 1)
                 => /\ Len(out) = n
                    /\ \E m \in 1..n :
                         /\ \A i \in 1..n : price[i] <= price[m]
                         /\ \A i \in 1..(m - 1) : price[i] < price[m]
                         /\ out[m].amount = price[m] + (ParsePrice(g) - SumOf(price))
                         /\ \A i \in 1..n : i # m => out[i].amount = price[i]
                    /\ SumOf(SplitAmounts(out)) = ParsePrice(g)
            /\ kids # {} =>
                 \E f \in [1..n -> kids] :
                   /\ \A k \in kids : Cardinality({i \in 1..n : f[i] = k}) = 1
                   /\ \A i \in 1..n : expenses'[f[i]].amount = out[i].amount]_vars

\* C32 witness: a receipt of items at 0.03 and 0.05 with a grand total of
\* 0.10 was accepted for the expense of 0.10: its sub-expenses are of 0.03
\* and of 0.07
C32_Witness ==
  \E a, b \in DOMAIN expenses :
    /\ expenses[a].isSubExpense /\ expenses[b].isSubExpense
    /\ expenses[a].parentExpenseId = expenses[b].parentExpenseId
    /\ expenses[a].amount = 3
    /\ expenses[b].amount = 7
    /\ expenses[b].merchant = "Amazon.com"

\* C33: the similar expenses handed to the classifier are at most 5, each is
\* the row of an expense that has a categorization, and they come in
\* non-increasing order of 0.3 * sim(merchant) + 0.7 * sim(description), where
\* sim is 1.0 for strings equal up to case, 0.8 when one contains the other,
\* and otherwise max(0, 1 - editDistance / max(len(a), len(b), 1))
C33_ExemplarsRankedByBlendedScore ==
  \A fr \in BagToSet(fnRuns) :
    (fr.pc = "llm-categorization" /\ "similarExpenses" \in DOMAIN fr.snap) =>
      LET found == fr.snap.similarExpenses
          query == expenses[fr.expenseId]
          sim(a, b) ==
            LET la == toLowerCase(a)
                lb == toLowerCase(b)
            IN IF la = lb THEN ScoreUnit
               ELSE IF Includes(la, lb) \/ Includes(lb, la) THEN (8 * ScoreUnit) \div 10
               ELSE Max(0, ScoreUnit - (ScoreUnit * levenshtein(la, lb))
                                         \div Max(Max(Len(a), Len(b)), 1))
          blended(x) == 3 * sim(Text(x.merchant), Text(query.merchant))
                        + 7 * sim(Text(x.description), Text(query.description))
      IN /\ Len(found) <= 5
         /\ \A i \in 1..Len(found) :
              /\ \E e \in DOMAIN categorizations :
                   /\ expenses[e].merchant = found[i].merchant
                   /\ expenses[e].description = found[i].description
                   /\ categorizations[e].categoryId = found[i].categoryId
              /\ found[i].similarityScore = blended(found[i])
         /\ \A i, j \in 1..Len(found) : i < j => blended(found[i]) >= blended(found[j])

\* C34: resolving a review item by a split takes exactly one off
\* reviewQueueCount and leaves categorizedCount: the handler's own write does
\* that, and the listener on the review/item.resolved event the split sends
\* (the only such events of SpecChildren) leaves the counters alone
C34_SplitDecrementsQueueOnce ==
  [][/\ \A fr \in BagToSet(fnRuns) :
          SplitWriteOf(fr) =>
            /\ run'.reviewQueueCount = run.reviewQueueCount - 1
            /\ run'.categorizedCount = run.categorizedCount
     /\ (CompleteReviewed \/ CompleteWrite) =>
          /\ run'.reviewQueueCount = run.reviewQueueCount
          /\ run'.categorizedCount = run.categorizedCount]_vars

\* C35: a review item resolved to a category moves one unit from
\* reviewQueueCount to categorizedCount in total, over the handler that
\* resolves it and the listener on review/item.resolved: once nothing is in
\* flight the counters are the numbers of categorized expenses and of pending
\* items (SpecCascade: every resolution is made by the cascade)
C35_ResolutionCountedOnce ==
  QuiescentReview =>
    /\ run.categorizedCount =
         Cardinality({e \in DOMAIN expenses : HasResolution(categorizations, e)})
    /\ run.reviewQueueCount =
         Cardinality({e \in DOMAIN expenses : HasPending(review_queue, e)})

\* C36: in every reachable state the counters of the batch are greater than
\* or equal to zero (the workflow_runs row has no failedCount column: the
\* counters it has are categorizedCount and reviewQueueCount)
C36_CountersNonNegative ==
  \A f \in CounterColumns : run[f] >= 0

\* C37: when a classification outcome counts an expense in reviewQueueCount
\* and emits expenses/expense.needs_review, a pending review item of that
\* expense exists afterwards, also when an item of the same id was already
\* there with status resolved and when the INSERT failed
C37_CountedItemIsPending ==
  [][\A fr \in BagToSet(fnRuns) :
       (/\ fr.fn = "categorizeExpense" /\ fr.pc = "updateRunStats"
        /\ fr.field = "reviewQueueCount"
        /\ fnRuns' = fnRuns (-) One(fr)
        /\ run'.reviewQueueCount = fr.snap.reviewQueueCount + 1)
       => HasPending(review_queue', fr.expenseId)]_vars

\* C38: a categorize or split request against a review item whose status is
\* already resolved changes nothing: no categorization is written or
\* replaced, no sub-expense is created, the counters are as before, and no
\* event is sent and no handler is left to write or send later
C38_ResolvedItemRejectsRequests ==
  [][\A e \in DOMAIN review_queue :
       (/\ review_queue[e].status = "resolved"
        /\ humanOps' # humanOps
        /\ \E body \in RequestBodies : HandleCategorizeReviewOf(e, body))
       => UNCHANGED <<categorizations, expenses, run, events, fnRuns>>]_vars

\* C39: when the reviewer's resolution and a retry in flight meet on one
\* review item, exactly one of them takes effect: the category of a resolved
\* item is not replaced by the other, and once nothing is in flight the
\* counters are those of a single resolution of the one expense
C39_OneResolutionTakesEffect ==
  [][/\ \A e \in DOMAIN categorizations :
          (e \in DOMAIN review_queue /\ review_queue[e].status = "resolved")
          => categorizations'[e].categoryId = categorizations[e].categoryId
     /\ (QuiescentReview' /\ categorizations' # <<>>)
          => run'.categorizedCount = 1 /\ run'.reviewQueueCount = 0]_vars

\* C40: a review item never goes from resolved back to pending, and its
\* reason, expenseId and runId stay what they were when it was created,
\* whatever is queued, retried, cascaded or resolved afterwards
C40_ItemIdentityAndStatusKept ==
  [][\A e \in DOMAIN review_queue :
       /\ e \in DOMAIN review_queue'
       /\ review_queue[e].status = "resolved" => review_queue'[e].status = "resolved"
       /\ review_queue'[e].reason = review_queue[e].reason
       /\ review_queue'[e].expenseId = review_queue[e].expenseId
       /\ review_queue'[e].runId = review_queue[e].runId]_vars

\* C40 witness: a retry of a resolved review item has replaced its
\* suggestion (its retryCount is counted)
C40_Witness ==
  \E e \in DOMAIN review_queue :
    /\ review_queue[e].status = "resolved"
    /\ review_queue[e].retryCount > 0
    /\ e \in DOMAIN categorizations

====
